---- MODULE Spec2Model ----
(***************************************************************************)
(* TenderMY progressive learning loop: the training-example store          *)
(* (TrainingDataManager), the review loop of the learn run                 *)
(* (LearningOrchestrator) and the training round (ContinuousTrainer).      *)
(*                                                                         *)
(* Representation.  An example file examples/<uuid>.json is an element of  *)
(* the sequence `examples`; the uuid is abstracted to the position of the  *)
(* file (a fresh uuid is the next unused position) and readdir lists the   *)
(* files in that order.  validations/<uuid>_validation.json is an entry of *)
(* the function `validations`.  sessions.json, metrics.json and            *)
(* report.json are `sessions`, `metrics` and `report`.  Percentages are    *)
(* integers in hundredths of a percent (toFixed(2)), confidences integers  *)
(* in thousandths (toFixed(3)).  An optional value is a sequence of length *)
(* 0 or 1.  An absent field of a Partial<Tender> is Undef (0 for bil).     *)
(* A timestamp is the ordinal of its moment.  A file operation that fails  *)
(* (a rejected write, an unreadable file) is an input of the operations    *)
(* of SpecFaults; everywhere else the file system works.                   *)
(*                                                                         *)
(* The extractor's pure functions (validation.ts, GeminiExtractor) work on *)
(* JSON values: a value is a record of its typeof tag, its number and its  *)
(* string; a candidate is the seven properties the validator reads off an  *)
(* item; a response text is a sequence of tokens: brackets, commas, prose,  *)
(* and JSON scalars and objects.                                           *)
(***************************************************************************)
EXTENDS Integers, Sequences, FiniteSets, TLC

(* ---------------- bounds of the model ---------------- *)
MaxExamples == 2
MaxSessions == 1
MaxRounds == 2
MaxCaptures == 2
MaxHistory == 2
MaxEvictions == 3
MaxBeyondCap == 2
MaxTokens == 4
MaxAnalyzed == 4
MaxMutations == 4

(* ---------------- program constants ---------------- *)
ValidationCap == 5
ReprocessCap == 10
MetricsCap == 100
MinTextLength == 5
KodBidangDigits == 6
DelayBetweenRequests == 3000

(* ---------------- data ---------------- *)
Undef == "undefined"

T0 ==
  [bil |-> 1, tarikh |-> "2024-07-03", daftar |-> "D-1", bidang |-> "BIDANG A",
   kod_bidang |-> "010302", keterangan |-> "KETERANGAN A", status |-> "Aktif"]

(* Records a reviewer may type in promptForManualEdit. *)
GroundTruths ==
  { T0,
    [T0 EXCEPT !.bil = 2],
    [T0 EXCEPT !.tarikh = "2024-07-04"],
    [T0 EXCEPT !.kod_bidang = "010303"],
    [T0 EXCEPT !.status = "Tidak Aktif"],
    [T0 EXCEPT !.bidang = "BIDANG B"],
    [T0 EXCEPT !.keterangan = "KETERANGAN B"] }

(* Scored records the extractor returns: all seven fields accepted        *)
(* (6.75/7 = 0.964), or the code rejected and left absent (5.75/7 = 0.821). *)
ExtractionResults ==
  { [tender |-> T0, overall |-> 964],
    [tender |-> [T0 EXCEPT !.kod_bidang = Undef], overall |-> 821] }

(* The path of a captured document is a fresh uuid per capture: the number *)
(* of example files present when the capture is extracted, plus one.       *)
CapturePath(store) == Len(store) + 1

EGood == [tender |-> T0, overall |-> 964]

ENoCode == [tender |-> [T0 EXCEPT !.kod_bidang = Undef], overall |-> 821]

(* What one extractFromPDF call does: throws, or returns a list of results. *)
ExtractOutcomes ==
  {[kind |-> "throw", results |-> <<>>], [kind |-> "ok", results |-> <<>>],
   [kind |-> "ok", results |-> <<EGood, ENoCode>>]}
    \cup {[kind |-> "ok", results |-> <<e>>] : e \in ExtractionResults}

(* What a re-extraction of one document does in a training round. *)
ReExtractOutcomes ==
  {[kind |-> "throw", results |-> <<>>], [kind |-> "ok", results |-> <<>>],
   [kind |-> "ok", results |-> <<EGood>>]}

Answers == {"y", "n", "edit"}

(* Iteration numbers a caller passes to saveTrainingExample. *)
Iterations == {1, 2}

VARIABLES examples, validations, sessions, metrics, report,
          learn, ret

vars == <<examples, validations, sessions, metrics, report, learn, ret>>

(* ---------------- helpers ---------------- *)
RECURSIVE SumSeq(_)
SumSeq(s) == IF s = <<>> THEN 0 ELSE Head(s) + SumSeq(Tail(s))

RECURSIVE Flatten(_)
Flatten(ss) == IF ss = <<>> THEN <<>> ELSE Head(ss) \o Flatten(Tail(ss))

(* Number.toFixed(2) of (num / den) * 100, in hundredths. *)
ToFixed2Pct(num, den) == (20000 * num + den) \div (2 * den)

(* Array.prototype.sort((a, b) => a.learning_iteration - b.learning_iteration): *)
(* a stable sort on iteration numbers, which are at least `from`.           *)
RECURSIVE SortByIteration(_, _)
SortByIteration(s, from) ==
  IF s = <<>> THEN <<>>
  ELSE SelectSeq(s, LAMBDA e : e.learning_iteration = from)
         \o SortByIteration(SelectSeq(s, LAMBDA e : e.learning_iteration # from), from + 1)

Max(S) == CHOOSE m \in S : \A x \in S : x <= m

Min2(a, b) == IF a <= b THEN a ELSE b

(* `ret` is what the caller of the last operation observed: the operation, *)
(* whether it threw, the id it was about, the reviewer's answer; for a     *)
(* training round the point it returned at, the trainer's iteration field, *)
(* the documents passed to extractFromPDF, the extractor's prompt and the  *)
(* loop's reprocessedCount.  `replaced` tells that validateExample found a *)
(* different ground truth already attached; `fault` is the file operation  *)
(* that failed underneath ("none", "write" or "read").  For a call of one  *)
(* of the extractor's pure functions `arg` holds the argument and `result`  *)
(* the value returned.  NoRet holds the values an operation does not set.  *)
NoRet ==
  [op |-> "none", err |-> FALSE, id |-> 0, answer |-> "", stage |-> "",
   iteration |-> 0, calls |-> <<>>, prompt |-> <<>>, reprocessed |-> 0,
   replaced |-> FALSE, fault |-> "none", arg |-> <<>>, result |-> <<>>]

(* ---------------- TrainingDataManager ---------------- *)

(* saveTrainingExample: one new unvalidated example per extraction result. *)
NewExample(id, pdfPath, extraction, iteration) ==
  [id |-> id, pdf_path |-> pdfPath, gemini_extraction |-> extraction,
   confidence_score |-> extraction.overall, is_validated |-> FALSE,
   manual_validation |-> <<>>, learning_iteration |-> iteration]

(* Variant: the id is drawn once per call, so every result of the call is *)
(* written to the same file and only the last one remains.                *)
saveTrainingExample_oneIdPerCall(store, pdfPath, extraction, iteration) ==
  IF extraction = <<>> THEN store
  ELSE Append(store, NewExample(Len(store) + 1, pdfPath,
                                extraction[Len(extraction)], iteration))

RECURSIVE saveTrainingExample(_, _, _, _)
saveTrainingExample(store, pdfPath, extraction, iteration) ==
  IF extraction = <<>> THEN store
  ELSE saveTrainingExample(
         Append(store, NewExample(Len(store) + 1, pdfPath, Head(extraction), iteration)),
         pdfPath, Tail(extraction), iteration)

(* Variant: a ground truth already attached is kept (first write wins). *)
validateExample_keepsFirst(store, exampleId, validatedTender) ==
  IF exampleId \notin DOMAIN store
    THEN [err |-> TRUE, store |-> store]
    ELSE [err |-> FALSE,
          store |-> IF store[exampleId].is_validated THEN store
                    ELSE [store EXCEPT ![exampleId].manual_validation = <<validatedTender>>,
                                       ![exampleId].is_validated = TRUE]]

(* Variant: the ground truth is stored but the flag is left as it was. *)
validateExample_keepsFlag(store, exampleId, validatedTender) ==
  IF exampleId \notin DOMAIN store
    THEN [err |-> TRUE, store |-> store]
    ELSE [err |-> FALSE,
          store |-> [store EXCEPT ![exampleId].manual_validation = <<validatedTender>>]]

(* Variant: a missing example file is swallowed instead of rejected. *)
validateExample_swallows(store, exampleId, validatedTender) ==
  IF exampleId \notin DOMAIN store
    THEN [err |-> FALSE, store |-> store]
    ELSE [err |-> FALSE,
          store |-> [store EXCEPT ![exampleId].manual_validation = <<validatedTender>>,
                                  ![exampleId].is_validated = TRUE]]

(* validateExample: the example file after the call; readFile of a missing *)
(* file rejects, which the caller sees as err.                             *)
validateExample(store, exampleId, validatedTender) ==
  IF exampleId \notin DOMAIN store
    THEN [err |-> TRUE, store |-> store]
    ELSE [err |-> FALSE,
          store |-> [store EXCEPT ![exampleId].manual_validation = <<validatedTender>>,
                                  ![exampleId].is_validated = TRUE]]

(* Whether the example file already holds a ground truth other than the  *)
(* one validateExample is about to assign.                                 *)
overwritesTruth(store, exampleId, validatedTender) ==
  /\ exampleId \in DOMAIN store
  /\ store[exampleId].manual_validation # <<>>
  /\ store[exampleId].manual_validation # <<validatedTender>>

(* validateExample: the validation unit written after the example file. *)
writeValidation(vals, store, exampleId, validatedTender) ==
  IF exampleId \notin DOMAIN store THEN vals
  ELSE [k \in DOMAIN vals \cup {exampleId} |->
          IF k = exampleId THEN validatedTender ELSE vals[k]]

getUnvalidatedExamples(store) == SelectSeq(store, LAMBDA e : ~e.is_validated)

(* iteration 0 stands for the omitted argument (!iteration). *)
getValidatedExamples(store, iteration) ==
  SortByIteration(
    SelectSeq(store, LAMBDA e : e.is_validated
                        /\ (iteration = 0 \/ e.learning_iteration = iteration)),
    0)

(* calculateAccuracy's per-example test. *)
fieldsMatch(example) ==
  LET extracted == example.gemini_extraction.tender
      validated_ == example.manual_validation[1]
  IN  /\ extracted.bil = validated_.bil
      /\ extracted.tarikh = validated_.tarikh
      /\ extracted.kod_bidang = validated_.kod_bidang
      /\ extracted.status = validated_.status

(* Variant: the test of the counting loop is inverted. *)
calculateAccuracy_inverted(store) ==
  LET validated == getValidatedExamples(store, 0)
      correctCount ==
        Len(SelectSeq(validated,
              LAMBDA e : e.manual_validation # <<>> /\ ~fieldsMatch(e)))
  IN  IF Len(validated) = 0 THEN 0
      ELSE ToFixed2Pct(correctCount, Len(validated))

calculateAccuracy(store) ==
  LET validated == getValidatedExamples(store, 0)
      correctCount ==
        Len(SelectSeq(validated,
              LAMBDA e : e.manual_validation # <<>> /\ fieldsMatch(e)))
  IN  IF Len(validated) = 0 THEN 0
      ELSE ToFixed2Pct(correctCount, Len(validated))

createSession(ss) ==
  Append(ss, [id |-> Len(ss) + 1, validation_accuracy |-> 0, iterations |-> <<>>])

(* Variant: the record is assigned as the session's list instead of pushed. *)
addIteration_replacesList(ss, sessionId, iteration) ==
  IF \A k \in DOMAIN ss : ss[k].id # sessionId
    THEN [err |-> TRUE, sessions |-> ss]
    ELSE LET k == CHOOSE j \in DOMAIN ss :
                    ss[j].id = sessionId /\ \A h \in 1..(j - 1) : ss[h].id # sessionId
         IN  [err |-> FALSE,
              sessions |-> [ss EXCEPT ![k].iterations = <<iteration>>,
                                      ![k].validation_accuracy = iteration.accuracy_after]]

(* Variant: an unknown id falls back to the last session instead of throwing. *)
addIteration_fallsBackToLast(ss, sessionId, iteration) ==
  LET found == {j \in DOMAIN ss : ss[j].id = sessionId}
      k == IF found # {} THEN CHOOSE j \in found : \A h \in found : j <= h
           ELSE Len(ss)
  IN  IF ss = <<>>
        THEN [err |-> TRUE, sessions |-> ss]
        ELSE [err |-> FALSE,
              sessions |-> [ss EXCEPT ![k].iterations = Append(@, iteration),
                                      ![k].validation_accuracy = iteration.accuracy_after]]

(* addIteration: sessions.json after the call; an unknown id throws. *)
addIteration(ss, sessionId, iteration) ==
  IF \A k \in DOMAIN ss : ss[k].id # sessionId
    THEN [err |-> TRUE, sessions |-> ss]
    ELSE LET k == CHOOSE j \in DOMAIN ss :
                    ss[j].id = sessionId /\ \A h \in 1..(j - 1) : ss[h].id # sessionId
         IN  [err |-> FALSE,
              sessions |-> [ss EXCEPT ![k].iterations = Append(@, iteration),
                                      ![k].validation_accuracy = iteration.accuracy_after]]

(* Variant: splice removes from the end, so the oldest 100 are kept. *)
saveMetrics_keepsOldest(allMetrics, m) ==
  LET pushed == Append(allMetrics, m)
  IN  IF Len(pushed) > MetricsCap
        THEN SubSeq(pushed, 1, MetricsCap)
        ELSE pushed

(* saveMetrics: push, then keep the last 100. *)
saveMetrics(allMetrics, m) ==
  LET pushed == Append(allMetrics, m)
  IN  IF Len(pushed) > MetricsCap
        THEN SubSeq(pushed, Len(pushed) - MetricsCap + 1, Len(pushed))
        ELSE pushed

(* Variant: the total leaves the unvalidated examples out. *)
generateReport_totalOfValidated(store, ss, ms) ==
  LET validated == getValidatedExamples(store, 0)
      unvalidated == getUnvalidatedExamples(store)
  IN  <<[total_examples |-> Len(validated),
         validated_examples |-> Len(validated),
         unvalidated_examples |-> Len(unvalidated),
         extraction_accuracy_percentage |-> calculateAccuracy(store),
         learning_sessions |-> Len(ss),
         latest_session |-> IF ss = <<>> THEN 0 ELSE ss[Len(ss)].id,
         metrics_recorded |-> Len(ms)]>>

generateReport(store, ss, ms) ==
  LET validated == getValidatedExamples(store, 0)
      unvalidated == getUnvalidatedExamples(store)
  IN  <<[total_examples |-> Len(validated) + Len(unvalidated),
         validated_examples |-> Len(validated),
         unvalidated_examples |-> Len(unvalidated),
         extraction_accuracy_percentage |-> calculateAccuracy(store),
         learning_sessions |-> Len(ss),
         latest_session |-> IF ss = <<>> THEN 0 ELSE ss[Len(ss)].id,
         metrics_recorded |-> Len(ms)]>>

(* ---------------- ContinuousTrainer ---------------- *)

(* analyzeFailures: the validated examples failing a critical field, each *)
(* with its field_mismatches (which has no keterangan entry).             *)
criticalFieldsMismatch(example) ==
  LET extracted == example.gemini_extraction.tender
      validated_ == example.manual_validation[1]
  IN  \/ extracted.bil # validated_.bil
      \/ extracted.kod_bidang # validated_.kod_bidang
      \/ extracted.status # validated_.status

field_mismatches(example) ==
  LET extracted == example.gemini_extraction.tender
      validated_ == example.manual_validation[1]
  IN  [bil |-> extracted.bil # validated_.bil,
       kod_bidang |-> extracted.kod_bidang # validated_.kod_bidang,
       status |-> extracted.status # validated_.status,
       tarikh |-> extracted.tarikh # validated_.tarikh,
       bidang |-> extracted.bidang # validated_.bidang]

analyzeFailures(validated) ==
  SelectSeq(validated,
            LAMBDA e : e.manual_validation # <<>> /\ criticalFieldsMismatch(e))

(* identifyFailurePatterns: mismatches.keterangan is never set, so it reads *)
(* as undefined (falsy).                                                   *)
identifyFailurePatterns(failures) ==
  LET M == {field_mismatches(failures[k]) : k \in DOMAIN failures}
  IN  {t \in {"code_format", "status_format", "text_content", "date_format"} :
         \E m \in M : \/ t = "code_format" /\ m.kod_bidang
                      \/ t = "status_format" /\ m.status
                      \/ t = "text_content" /\ (m.bidang \/ FALSE)
                      \/ t = "date_format" /\ m.tarikh}

(* Variant: the corrective clauses are appended failure by failure, each  *)
(* failure adding the clauses of its own mismatches.                       *)
RECURSIVE generateImprovedPrompt_perFailure(_)
generateImprovedPrompt_perFailure(failures) ==
  IF failures = <<>> THEN <<"base", "output-format">>
  ELSE LET before == generateImprovedPrompt_perFailure(SubSeq(failures, 1, Len(failures) - 1))
           own == identifyFailurePatterns(<<failures[Len(failures)]>>)
           clause(t) == IF t \in own THEN <<t>> ELSE <<>>
       IN  SubSeq(before, 1, Len(before) - 1)
             \o clause("code_format") \o clause("status_format")
             \o clause("text_content") \o clause("date_format") \o <<"output-format">>

(* generateImprovedPrompt: the document as its sequence of clauses. *)
generateImprovedPrompt(failures) ==
  LET failurePatterns == identifyFailurePatterns(failures)
      clause(t) == IF t \in failurePatterns THEN <<t>> ELSE <<>>
  IN  <<"base">> \o clause("code_format") \o clause("status_format")
        \o clause("text_content") \o clause("date_format") \o <<"output-format">>

DefaultPrompt == <<"default">>

(* Variant: the first call that throws ends the loop. *)
RECURSIVE reExtract_abortsOnThrow(_, _)
reExtract_abortsOnThrow(selected, outcomes) ==
  IF selected = <<>>
    THEN [reprocessedCount |-> 0, improvementCount |-> 0, calls |-> <<>>]
    ELSE LET failedExample == Head(selected)
             o == Head(outcomes)
             rest == IF o.kind = "throw"
                       THEN [reprocessedCount |-> 0, improvementCount |-> 0, calls |-> <<>>]
                       ELSE reExtract_abortsOnThrow(Tail(selected), Tail(outcomes))
             counted == o.kind = "ok" /\ Len(o.results) > 0
             better == counted /\ o.results[1].overall > failedExample.confidence_score
         IN  [reprocessedCount |-> rest.reprocessedCount + (IF counted THEN 1 ELSE 0),
              improvementCount |-> rest.improvementCount + (IF better THEN 1 ELSE 0),
              calls |-> <<failedExample.pdf_path>> \o rest.calls]

(* The re-extraction loop over failures.slice(0, 10): the counters after  *)
(* the loop and the documents passed to extractFromPDF, given what each    *)
(* call does.                                                              *)
RECURSIVE reExtract(_, _)
reExtract(selected, outcomes) ==
  IF selected = <<>>
    THEN [reprocessedCount |-> 0, improvementCount |-> 0, calls |-> <<>>]
    ELSE LET failedExample == Head(selected)
             o == Head(outcomes)
             rest == reExtract(Tail(selected), Tail(outcomes))
             counted == o.kind = "ok" /\ Len(o.results) > 0
             better == counted /\ o.results[1].overall > failedExample.confidence_score
         IN  [reprocessedCount |-> rest.reprocessedCount + (IF counted THEN 1 ELSE 0),
              improvementCount |-> rest.improvementCount + (IF better THEN 1 ELSE 0),
              calls |-> <<failedExample.pdf_path>> \o rest.calls]

(* Variant: a successful re-extraction replaces the failing example's record. *)
RECURSIVE storeAfterLoop_overwrites(_, _, _)
storeAfterLoop_overwrites(store, selected, outcomes) ==
  IF selected = <<>> THEN store
  ELSE LET failedExample == Head(selected)
           o == Head(outcomes)
           next == IF o.kind = "ok" /\ Len(o.results) > 0
                     THEN [store EXCEPT ![failedExample.id].gemini_extraction = o.results[1],
                                        ![failedExample.id].confidence_score = o.results[1].overall]
                     ELSE store
       IN  storeAfterLoop_overwrites(next, Tail(selected), Tail(outcomes))

(* The example files after the re-extraction loop: the loop body compares *)
(* confidences and counts, and writes nothing.                             *)
storeAfterLoop(store, selected, outcomes) == store

(* Variant: the loop runs over every failure (the slice is missing). *)
failuresSlice_all(failures) == failures

(* failures.slice(0, 10): the failures the round re-extracts. *)
failuresSlice(failures) == SubSeq(failures, 1, Min2(Len(failures), ReprocessCap))

(* Where train() returns: the two early returns, or after recording. *)
(* Variant: the check for an empty failure list is missing. *)
trainStage_noFailureCheck(validated, failures) ==
  IF Len(validated) = 0 THEN "no-validated" ELSE "recorded"

trainStage(validated, failures) ==
  IF Len(validated) = 0 THEN "no-validated"
  ELSE IF Len(failures) = 0 THEN "no-failures"
  ELSE "recorded"

(* Variant: the round is numbered by the count of validated examples. *)
nextIteration_byCount(validated) == Len(validated) + 1

(* The iteration number train() assigns before analyzing failures. *)
nextIteration(validated) ==
  Max({validated[k].learning_iteration : k \in DOMAIN validated} \cup {0}) + 1

TotalIterations == SumSeq([k \in DOMAIN sessions |-> Len(sessions[k].iterations)])

(* train(): one whole round of a fresh ContinuousTrainer process.  The    *)
(* free-text improvements of the iteration record is represented by the    *)
(* failure count it quotes; the loop counters it also quotes are in ret.   *)
Train(outcomes) ==
  LET currentAccuracy == calculateAccuracy(examples)
      validated == getValidatedExamples(examples, 0)
      failures == analyzeFailures(validated)
      stage == trainStage(validated, failures)
      selected == failuresSlice(failures)
      improvedPrompt == generateImprovedPrompt(failures)
      loop == reExtract(selected, outcomes)
      store == storeAfterLoop(examples, selected, outcomes)
      iteration == nextIteration(validated)
      iterationRecord ==
        [iteration_number |-> iteration,
         examples_processed |-> Len(validated),
         accuracy_before |-> currentAccuracy,
         accuracy_after |-> calculateAccuracy(store),
         improvements |-> Len(failures)]
      added == IF Len(sessions) > 0
                 THEN addIteration(sessions, sessions[Len(sessions)].id, iterationRecord)
                 ELSE [err |-> FALSE, sessions |-> sessions]
  IN  /\ Len(outcomes) = Len(selected)
      /\ UNCHANGED <<validations, metrics, learn>>
      /\ IF stage = "no-validated"
           THEN /\ ret' = [NoRet EXCEPT !.op = "train", !.stage = stage,
                                        !.prompt = DefaultPrompt]
                /\ UNCHANGED <<examples, sessions, report>>
         ELSE IF stage = "no-failures"
           THEN /\ ret' = [NoRet EXCEPT !.op = "train", !.stage = stage,
                                        !.iteration = iteration,
                                        !.prompt = DefaultPrompt]
                /\ UNCHANGED <<examples, sessions, report>>
         ELSE /\ examples' = store
              /\ sessions' = added.sessions
              /\ report' = generateReport(store, added.sessions, metrics)
              /\ ret' = [NoRet EXCEPT !.op = "train", !.stage = stage,
                                      !.err = added.err,
                                      !.iteration = iteration,
                                      !.calls = loop.calls,
                                      !.prompt = improvedPrompt,
                                      !.reprocessed = loop.reprocessedCount]

(* ---------------- initial state ---------------- *)
LearnIdle == [pc |-> "idle", unvalidated |-> <<>>, i |-> 0, allExtractions |-> <<>>]

Init ==
  /\ examples = <<>>
  /\ validations = <<>>
  /\ sessions = <<>>
  /\ metrics = <<>>
  /\ report = <<>>
  /\ learn = LearnIdle
  /\ ret = NoRet

(* ---------------- store operations called directly ---------------- *)
SaveTrainingExample(extraction, iteration) ==
  /\ examples' = saveTrainingExample(examples, CapturePath(examples), extraction, iteration)
  /\ ret' = [NoRet EXCEPT !.op = "saveTrainingExample"]
  /\ UNCHANGED <<validations, sessions, metrics, report, learn>>

ValidateExample(exampleId, validatedTender) ==
  LET r == validateExample(examples, exampleId, validatedTender)
  IN  /\ examples' = r.store
      /\ validations' = writeValidation(validations, examples, exampleId, validatedTender)
      /\ ret' = [NoRet EXCEPT !.op = "validateExample", !.err = r.err,
                              !.id = exampleId,
                              !.replaced = overwritesTruth(examples, exampleId, validatedTender)]
      /\ UNCHANGED <<sessions, metrics, report, learn>>

CreateSession ==
  /\ sessions' = createSession(sessions)
  /\ ret' = [NoRet EXCEPT !.op = "createSession", !.id = Len(sessions) + 1]
  /\ UNCHANGED <<examples, validations, metrics, report, learn>>

AddIteration(sessionId, iteration) ==
  LET r == addIteration(sessions, sessionId, iteration)
  IN  /\ sessions' = r.sessions
      /\ ret' = [NoRet EXCEPT !.op = "addIteration", !.err = r.err, !.id = sessionId]
      /\ UNCHANGED <<examples, validations, metrics, report, learn>>

SaveMetrics(m) ==
  /\ metrics' = saveMetrics(metrics, m)
  /\ ret' = [NoRet EXCEPT !.op = "saveMetrics"]
  /\ UNCHANGED <<examples, validations, sessions, report, learn>>

(* ---------------- store operations over a failing file system -------- *)
(* fs.writeFile may reject and a stored file may be unreadable (readFile   *)
(* or JSON.parse throws).  Each operation is given which of its file       *)
(* operations fail; ret.fault records that one did.                        *)

(* saveTrainingExample: the write of result failAt rejects (0: none); the  *)
(* files of the results before it are written, then the call throws.       *)
SaveTrainingExampleIO(extraction, iteration, failAt) ==
  LET written == IF failAt = 0 THEN extraction ELSE SubSeq(extraction, 1, failAt - 1)
  IN  /\ examples' = saveTrainingExample(examples, CapturePath(examples), written, iteration)
      /\ ret' = [NoRet EXCEPT !.op = "saveTrainingExample", !.err = (failAt # 0),
                              !.fault = IF failAt # 0 THEN "write" ELSE "none"]
      /\ UNCHANGED <<validations, sessions, metrics, report, learn>>

(* validateExample: the example file is unreadable (the read throws), or   *)
(* its first write (the example file) or second write (the validation      *)
(* unit) rejects.                                                          *)
ValidateExampleIO(exampleId, validatedTender, unreadable, failAt) ==
  LET r == validateExample(examples, exampleId, validatedTender)
      readThrows == r.err \/ unreadable
  IN  /\ examples' = IF readThrows \/ failAt = 1 THEN examples ELSE r.store
      /\ validations' = IF readThrows \/ failAt # 0 THEN validations
                        ELSE writeValidation(validations, examples, exampleId, validatedTender)
      /\ ret' = [NoRet EXCEPT !.op = "validateExample", !.id = exampleId,
                              !.err = (readThrows \/ failAt # 0),
                              !.fault = IF r.err THEN "none"
                                        ELSE IF unreadable THEN "read"
                                        ELSE IF failAt # 0 THEN "write" ELSE "none"]
      /\ UNCHANGED <<sessions, metrics, report, learn>>

(* getSessions / getMetrics: an unreadable file reads as the empty list. *)
getSessions(ss, unreadable) == IF unreadable THEN <<>> ELSE ss

getMetrics(ms, unreadable) == IF unreadable THEN <<>> ELSE ms

CreateSessionIO(unreadable, writeFails) ==
  /\ sessions' = IF writeFails THEN sessions
                 ELSE createSession(getSessions(sessions, unreadable))
  /\ ret' = [NoRet EXCEPT !.op = "createSession", !.err = writeFails,
                          !.fault = IF unreadable THEN "read"
                                    ELSE IF writeFails THEN "write" ELSE "none"]
  /\ UNCHANGED <<examples, validations, metrics, report, learn>>

AddIterationIO(sessionId, iteration, unreadable, writeFails) ==
  LET r == addIteration(getSessions(sessions, unreadable), sessionId, iteration)
  IN  /\ sessions' = IF r.err \/ writeFails THEN sessions ELSE r.sessions
      /\ ret' = [NoRet EXCEPT !.op = "addIteration", !.id = sessionId,
                              !.err = (r.err \/ writeFails),
                              !.fault = IF unreadable THEN "read"
                                        ELSE IF ~r.err /\ writeFails THEN "write"
                                        ELSE "none"]
      /\ UNCHANGED <<examples, validations, metrics, report, learn>>

(* saveMetrics: the whole body is in a try whose catch only logs. *)
SaveMetricsIO(m, unreadable, writeFails) ==
  /\ metrics' = IF writeFails THEN metrics
                ELSE saveMetrics(getMetrics(metrics, unreadable), m)
  /\ ret' = [NoRet EXCEPT !.op = "saveMetrics", !.err = FALSE,
                          !.fault = IF unreadable THEN "read"
                                    ELSE IF writeFails THEN "write" ELSE "none"]
  /\ UNCHANGED <<examples, validations, sessions, report, learn>>

(* getValidatedExamples / getUnvalidatedExamples: one unreadable example   *)
(* file throws inside the try, and the catch returns the empty list.       *)
readExamples(store, unreadable) == IF unreadable THEN <<>> ELSE store

(* train() while an example file is unreadable: calculateAccuracy and      *)
(* getValidatedExamples both see the empty list.                           *)
TrainUnreadable ==
  LET read == readExamples(examples, TRUE)
      currentAccuracy == calculateAccuracy(read)
      validated == getValidatedExamples(read, 0)
      stage == trainStage(validated, analyzeFailures(validated))
  IN  /\ examples # <<>>
      /\ stage = "no-validated"
      /\ ret' = [NoRet EXCEPT !.op = "train", !.stage = stage, !.err = FALSE,
                              !.prompt = DefaultPrompt, !.fault = "read"]
      /\ UNCHANGED <<examples, validations, sessions, metrics, report, learn>>

(* ---------------- LearningOrchestrator ---------------- *)

(* The extraction loop of learnAndImprove: every capture whose extraction *)
(* does not throw is saved under iteration 1.                             *)
RECURSIVE extractAndSave(_, _)
extractAndSave(store, captures) ==
  IF captures = <<>> THEN store
  ELSE LET c == Head(captures)
       IN  extractAndSave(
             IF c.kind = "ok"
               THEN saveTrainingExample(store, CapturePath(store), c.results, 1)
               ELSE store,
             Tail(captures))

allExtractionsOf(captures) ==
  Flatten([k \in DOMAIN captures |->
             IF captures[k].kind = "ok"
               THEN [j \in DOMAIN captures[k].results |-> captures[k].results[j].overall]
               ELSE <<>>])

(* timestamp: new Date() of a snapshot, as the ordinal of the moment: later *)
(* than the timestamp of every snapshot recorded so far.                   *)
Now(ms) == IF ms = <<>> THEN 1 ELSE ms[Len(ms)].timestamp + 1

(* The snapshot learnAndImprove hands to saveMetrics. *)
metricsSnapshot(allExtractions, accuracy, timestamp) ==
  [total_tenders_found |-> Len(allExtractions),
   successfully_extracted |-> Len(SelectSeq(allExtractions, LAMBDA c : c > 850)),
   failed_extractions |-> Len(SelectSeq(allExtractions, LAMBDA c : c <= 850)),
   extraction_accuracy |-> accuracy,
   timestamp |-> timestamp]

(* promptForValidation: what the reviewer's answer resolves to. *)
promptForValidation(answer, edited) ==
  IF answer = "y" THEN <<>>
  ELSE IF answer = "edit" THEN <<edited>>
  ELSE <<>>

(* Phase 6 of learnAndImprove: accuracy, metrics, report. *)
LearnFinish(store, allExtractions) ==
  LET accuracy == calculateAccuracy(store)
      ms == saveMetrics(metrics, metricsSnapshot(allExtractions, accuracy, Now(metrics)))
  IN  /\ metrics' = ms
      /\ report' = generateReport(store, sessions', ms)
      /\ learn' = LearnIdle

(* learnAndImprove up to the first review prompt. *)
LearnStart(captures) ==
  LET store == extractAndSave(examples, captures)
      unvalidated == getUnvalidatedExamples(store)
  IN  /\ learn.pc = "idle"
      /\ sessions' = createSession(sessions)
      /\ examples' = store
      /\ UNCHANGED validations
      /\ ret' = [NoRet EXCEPT !.op = "learn", !.id = Len(sessions) + 1]
      /\ IF Len(unvalidated) = 0
           THEN LearnFinish(store, allExtractionsOf(captures))
           ELSE /\ learn' = [pc |-> "prompt",
                             unvalidated |-> [k \in DOMAIN unvalidated |-> unvalidated[k].id],
                             i |-> 1,
                             allExtractions |-> allExtractionsOf(captures)]
                /\ UNCHANGED <<metrics, report>>

(* One pass of the manualValidationLoop body: the reviewer answers the    *)
(* prompt for unvalidated[i]; after the last prompt the run finishes.     *)
LearnAnswer(answer, edited) ==
  LET exampleId == learn.unvalidated[learn.i]
      validated == promptForValidation(answer, edited)
      r == IF validated # <<>>
             THEN validateExample(examples, exampleId, validated[1])
             ELSE [err |-> FALSE, store |-> examples]
      last == learn.i >= Min2(Len(learn.unvalidated), ValidationCap)
  IN  /\ learn.pc = "prompt"
      /\ examples' = r.store
      /\ validations' = IF validated # <<>>
                          THEN writeValidation(validations, examples, exampleId, validated[1])
                          ELSE validations
      /\ UNCHANGED sessions
      /\ ret' = [NoRet EXCEPT !.op = "answer", !.answer = answer, !.id = exampleId]
      /\ IF last
           THEN LearnFinish(r.store, learn.allExtractions)
           ELSE /\ learn' = [learn EXCEPT !.i = @ + 1]
                /\ UNCHANGED <<metrics, report>>

NSelected ==
  Len(failuresSlice(analyzeFailures(getValidatedExamples(examples, 0))))

(* The ground truths a reviewer types where whole runs are explored. *)
TrainTruths == {T0, [T0 EXCEPT !.tarikh = "2024-07-04"]}

(* Iteration records a caller hands to addIteration. *)
IterationRecords ==
  { [iteration_number |-> 2, examples_processed |-> 1, accuracy_before |-> 0,
     accuracy_after |-> 0, improvements |-> 1],
    [iteration_number |-> 3, examples_processed |-> 2, accuracy_before |-> 0,
     accuracy_after |-> 5000, improvements |-> 1] }

(* The snapshot of the next saveMetrics call. *)
NextSnapshot == metricsSnapshot(<<964>>, 0, Now(metrics))

(* ---------------- validation.ts, GeminiExtractor ---------------- *)

JUndef == [t |-> "undefined", n |-> 0, s |-> ""]
JNum(n) == [t |-> "number", n |-> n, s |-> ""]
JStr(s) == [t |-> "string", n |-> 0, s |-> s]

FieldOrder == <<"bil", "tarikh", "daftar", "bidang", "kod_bidang", "keterangan", "status">>

Digits == {"0", "1", "2", "3", "4", "5", "6", "7", "8", "9"}

CharAt(s, i) == SubSeq(s, i, i)

(* String(n) of a non-negative integer. *)
RECURSIVE NumToStr(_)
NumToStr(n) ==
  LET d == CHOOSE c \in Digits :
             c = CharAt("0123456789", (n % 10) + 1)
  IN  IF n < 10 THEN d ELSE NumToStr(n \div 10) \o d

(* String(value), as RegExp.prototype.test coerces its argument. *)
StringOf(v) ==
  IF v.t = "string" THEN v.s
  ELSE IF v.t = "number" THEN NumToStr(v.n)
  ELSE v.t

(* JavaScript truthiness of a value. *)
Truthy(v) ==
  IF v.t = "string" THEN v.s # ""
  ELSE IF v.t = "number" THEN v.n # 0
  ELSE FALSE

(* An anchored pattern of \d classes and literal characters, written with   *)
(* d for \d: /^\d{2}\/\d{2}\/\d{4}$/ is "dd/dd/dddd".                       *)
MatchesShape(s, shape) ==
  /\ Len(s) = Len(shape)
  /\ \A i \in 1..Len(shape) :
       IF CharAt(shape, i) = "d" THEN CharAt(s, i) \in Digits
       ELSE CharAt(s, i) = CharAt(shape, i)

(* Variant: the first two digits are taken for the month. *)
normalizeDate_monthFirst(dateStr) ==
  IF dateStr.t # "string" THEN <<>>
  ELSE LET s == dateStr.s
       IN  IF MatchesShape(s, "dd/dd/dddd") \/ MatchesShape(s, "dd-dd-dddd")
             THEN <<SubSeq(s, 7, 10) \o "-" \o SubSeq(s, 1, 2) \o "-" \o SubSeq(s, 4, 5)>>
           ELSE IF MatchesShape(s, "dddd-dd-dd") THEN <<s>>
           ELSE <<>>

(* normalizeDate: null is <<>>; a value without a match method throws     *)
(* inside the try and null is returned.                                   *)
normalizeDate(dateStr) ==
  IF dateStr.t # "string" THEN <<>>
  ELSE LET s == dateStr.s
       IN  IF MatchesShape(s, "dd/dd/dddd")
             THEN <<SubSeq(s, 7, 10) \o "-" \o SubSeq(s, 4, 5) \o "-" \o SubSeq(s, 1, 2)>>
           ELSE IF MatchesShape(s, "dd-dd-dddd")
             THEN <<SubSeq(s, 7, 10) \o "-" \o SubSeq(s, 4, 5) \o "-" \o SubSeq(s, 1, 2)>>
           ELSE IF MatchesShape(s, "dddd-dd-dd") THEN <<s>>
           ELSE <<>>

IsSpace(c) == c \in {" ", "\n", "\t"}

RECURSIVE trim(_)
trim(s) ==
  IF Len(s) > 0 /\ IsSpace(CharAt(s, 1)) THEN trim(SubSeq(s, 2, Len(s)))
  ELSE IF Len(s) > 0 /\ IsSpace(CharAt(s, Len(s))) THEN trim(SubSeq(s, 1, Len(s) - 1))
  ELSE s

(* replace(/\s+/g, ' ') *)
RECURSIVE collapseSpaces(_)
collapseSpaces(s) ==
  IF Len(s) = 0 THEN s
  ELSE IF IsSpace(CharAt(s, 1))
    THEN IF Len(s) > 1 /\ IsSpace(CharAt(s, 2))
           THEN collapseSpaces(SubSeq(s, 2, Len(s)))
           ELSE " " \o collapseSpaces(SubSeq(s, 2, Len(s)))
  ELSE CharAt(s, 1) \o collapseSpaces(SubSeq(s, 2, Len(s)))

(* cleanText: after the first replace no line break is left for the others. *)
cleanText(text) == collapseSpaces(trim(text))

(* Variant: any run of digits is taken for a code. *)
isValidKodBidang_anyDigits(kod) ==
  LET s == StringOf(kod)
  IN  Len(s) > 0 /\ \A i \in 1..Len(s) : CharAt(s, i) \in Digits

(* /^\d{6}$/.test(kod) *)
isValidKodBidang(kod) ==
  LET s == StringOf(kod)
  IN  Len(s) = KodBidangDigits /\ \A i \in 1..Len(s) : CharAt(s, i) \in Digits

isValidStatus(status) == status.t = "string" /\ status.s \in {"Aktif", "Tidak Aktif"}

(* The test of each field's if in validateAndScoreTender. *)
fieldAccepted(data, f) ==
  CASE f = "bil" -> data.bil.t = "number" /\ data.bil.n > 0
    [] f = "tarikh" ->
         normalizeDate(IF Truthy(data.tarikh) THEN data.tarikh ELSE JStr("")) # <<>>
    [] f = "daftar" -> Truthy(data.daftar) /\ data.daftar.t = "string"
    [] f = "bidang" ->
         /\ Truthy(data.bidang) /\ data.bidang.t = "string"
         /\ Len(data.bidang.s) > MinTextLength
    [] f = "kod_bidang" -> isValidKodBidang(data.kod_bidang)
    [] f = "keterangan" ->
         /\ Truthy(data.keterangan) /\ data.keterangan.t = "string"
         /\ Len(data.keterangan.s) > MinTextLength
    [] f = "status" -> isValidStatus(data.status)

(* What the accepting branch assigns to extraction[f]. *)
acceptedValue(data, f) ==
  CASE f = "tarikh" -> JStr(normalizeDate(data.tarikh)[1])
    [] f = "daftar" -> JStr(cleanText(data.daftar.s))
    [] f = "bidang" -> JStr(cleanText(data.bidang.s))
    [] f = "keterangan" -> JStr(cleanText(data.keterangan.s))
    [] OTHER -> data[f]

(* What the accepting branch assigns to perFieldConfidence[f], in thousandths. *)
acceptedConfidence(f) ==
  CASE f = "daftar" -> 900
    [] f = "bidang" -> 950
    [] f = "keterangan" -> 900
    [] OTHER -> 1000

(* The message of the rejecting branch, without the value it quotes. *)
errorText(f) ==
  CASE f = "bil" -> "Invalid BIL"
    [] f = "tarikh" -> "Invalid date format"
    [] f = "daftar" -> "Missing DAFTAR"
    [] f = "bidang" -> "Invalid BIDANG"
    [] f = "kod_bidang" -> "Invalid KOD BIDANG format"
    [] f = "keterangan" -> "Invalid KETERANGAN"
    [] f = "status" -> "Invalid STATUS"

(* Variant: only the first rejection is pushed. *)
validationErrors_firstOnly(data) ==
  LET all == SelectSeq([i \in DOMAIN FieldOrder |->
                          [field |-> FieldOrder[i], text |-> errorText(FieldOrder[i])]],
                       LAMBDA e : ~fieldAccepted(data, e.field))
  IN  IF all = <<>> THEN all ELSE <<all[1]>>

(* errors: one push per rejected field, in the order of the checks. *)
validationErrors(data) ==
  SelectSeq([i \in DOMAIN FieldOrder |->
               [field |-> FieldOrder[i], text |-> errorText(FieldOrder[i])]],
            LAMBDA e : ~fieldAccepted(data, e.field))

(* Variant: the mean over the accepted fields only. *)
overallConfidence_acceptedOnly(perFieldConfidence) ==
  LET present == SelectSeq(FieldOrder, LAMBDA f : perFieldConfidence[f] > 0)
      sum == SumSeq([i \in DOMAIN present |-> perFieldConfidence[present[i]]])
  IN  IF present = <<>> THEN 0
      ELSE (2 * sum + Len(present)) \div (2 * Len(present))

(* parseFloat((sum of Object.values / length).toFixed(3)), in thousandths. *)
overallConfidence(perFieldConfidence) ==
  LET sum == SumSeq([i \in DOMAIN FieldOrder |-> perFieldConfidence[FieldOrder[i]]])
  IN  (2 * sum + Len(FieldOrder)) \div (2 * Len(FieldOrder))

(* validateAndScoreTender of an item whose property reads give `data`. *)
validateAndScoreTender(data) ==
  LET perFieldConfidence ==
        [f \in DOMAIN data |-> IF fieldAccepted(data, f) THEN acceptedConfidence(f) ELSE 0]
  IN  [tender |-> [f \in DOMAIN data |->
                     IF fieldAccepted(data, f) THEN acceptedValue(data, f) ELSE JUndef],
       per_field |-> perFieldConfidence,
       overall |-> overallConfidence(perFieldConfidence),
       errors |-> validationErrors(data)]

(* The properties read off an item that is not an object. *)
NoFields == [f \in {FieldOrder[i] : i \in DOMAIN FieldOrder} |-> JUndef]

(* responseText.match(/\[[\s\S]*\]/): the tokens from the first "[" to the *)
(* last "]" after it, if there are such.                                   *)
jsonMatch(responseText) ==
  LET opens == {i \in DOMAIN responseText : responseText[i].t = "["}
      first == CHOOSE i \in opens : \A j \in opens : i <= j
      closes == {i \in DOMAIN responseText : responseText[i].t = "]" /\ i > first}
      last == CHOOSE i \in closes : \A j \in closes : j <= i
  IN  IF opens = {} \/ closes = {} THEN <<>>
      ELSE <<SubSeq(responseText, first, last)>>

(* JSON.parse, as a descent over the tokens: parseValue reads one value at *)
(* position i, parseElements the elements of an array up to its "]".  A    *)
(* nested array is an item without the properties of a tender.            *)
RECURSIVE parseValue(_, _), parseElements(_, _)
parseValue(tokens, i) ==
  LET failed == [ok |-> FALSE, next |-> i, item |-> [t |-> "none", data |-> NoFields],
                 items |-> <<>>]
  IN  IF i > Len(tokens) THEN failed
      ELSE IF tokens[i].t \in {"null", "number", "string", "object"}
        THEN [ok |-> TRUE, next |-> i + 1, item |-> tokens[i], items |-> <<>>]
      ELSE IF tokens[i].t = "["
        THEN IF i + 1 <= Len(tokens) /\ tokens[i + 1].t = "]"
               THEN [ok |-> TRUE, next |-> i + 2,
                     item |-> [t |-> "array", data |-> NoFields], items |-> <<>>]
               ELSE LET elements == parseElements(tokens, i + 1)
                    IN  IF elements.ok
                          THEN [ok |-> TRUE, next |-> elements.next,
                                item |-> [t |-> "array", data |-> NoFields],
                                items |-> elements.items]
                          ELSE failed
      ELSE failed

parseElements(tokens, i) ==
  LET failed == [ok |-> FALSE, next |-> i, items |-> <<>>]
      value == parseValue(tokens, i)
  IN  IF ~value.ok \/ value.next > Len(tokens) THEN failed
      ELSE IF tokens[value.next].t = "]"
        THEN [ok |-> TRUE, next |-> value.next + 1, items |-> <<value.item>>]
      ELSE IF tokens[value.next].t = ","
        THEN LET rest == parseElements(tokens, value.next + 1)
             IN  IF rest.ok
                   THEN [ok |-> TRUE, next |-> rest.next,
                         items |-> <<value.item>> \o rest.items]
                   ELSE failed
      ELSE failed

(* JSON.parse(text): throws unless the whole text is one value. *)
jsonParse(tokens) ==
  LET value == parseValue(tokens, 1)
  IN  IF value.ok /\ value.next = Len(tokens) + 1
        THEN [threw |-> FALSE, item |-> value.item, items |-> value.items]
        ELSE [threw |-> TRUE, item |-> [t |-> "none", data |-> NoFields], items |-> <<>>]

(* parseGeminiResponse: whatever is thrown inside (by JSON.parse, or by    *)
(* reading data.bil of a null item) is caught and [] is returned.          *)
parseGeminiResponse(responseText) ==
  LET match == jsonMatch(responseText)
      parsed == jsonParse(match[1])
  IN  IF match = <<>> THEN <<>>
      ELSE IF parsed.threw THEN <<>>
      ELSE IF parsed.item.t # "array" THEN <<>>
      ELSE IF \E k \in DOMAIN parsed.items : parsed.items[k].t = "null" THEN <<>>
      ELSE [k \in DOMAIN parsed.items |-> validateAndScoreTender(parsed.items[k].data)]

(* Inputs of the pure functions. *)
ScenarioA ==
  [bil |-> JNum(1), tarikh |-> JStr("03/07/2024"), daftar |-> JUndef,
   bidang |-> JStr("PENERBITAN DAN PENYIARAN"), kod_bidang |-> JStr("010302"),
   keterangan |-> JStr("A full description over ten chars"), status |-> JStr("Aktif")]

ScenarioAWithDaftar == [ScenarioA EXCEPT !.daftar = JStr(" 03/07/2024  -\n02/07/2027 ")]

FieldValues ==
  [bil |-> {JNum(1), JNum(0), JStr("1"), JUndef},
   tarikh |-> {JStr("03/07/2024"), JStr("2024-07-03"), JStr("3/7/2024"),
               JNum(20240703), JUndef},
   daftar |-> {JStr(" 03/07/2024  -\n02/07/2027 "), JStr(""), JUndef},
   bidang |-> {JStr("PENERBITAN DAN PENYIARAN"), JStr("ABCDE"), JStr("ABCDEF"), JUndef},
   kod_bidang |-> {JStr("010302"), JStr("12345"), JStr("1234567"), JNum(123456), JUndef},
   keterangan |-> {JStr("A full description over ten chars"), JStr("ABCDEFGHI"),
                   JStr("ABCDEFGHIJ"), JStr("ABCDE"), JUndef},
   status |-> {JStr("Aktif"), JStr("Tidak Aktif"), JStr("aktif"), JUndef}]

Candidates ==
  [bil : FieldValues.bil, tarikh : FieldValues.tarikh, daftar : FieldValues.daftar,
   bidang : FieldValues.bidang, kod_bidang : FieldValues.kod_bidang,
   keterangan : FieldValues.keterangan, status : FieldValues.status]

DateParts == {"03", "07", "3", "2024", "20a4"}

DateSeparators == {"/", "-", "."}

DateStrings ==
  {a \o s1 \o b \o s2 \o c :
     a \in DateParts, b \in DateParts, c \in DateParts,
     s1 \in DateSeparators, s2 \in DateSeparators}
    \cup {"", " 03/07/2024", "03/07/2024 ", "2024-07-03\n"}

DateInputs == {JStr(s) : s \in DateStrings} \cup {JNum(20240703), JUndef}

ResponseTokens ==
  {[t |-> k, data |-> NoFields] : k \in {"[", "]", ",", "text", "null", "number"}}
    \cup {[t |-> "object", data |-> ScenarioAWithDaftar],
          [t |-> "object", data |-> [ScenarioAWithDaftar EXCEPT !.kod_bidang = JStr("12345")]]}

ResponseTexts == UNION {[1..n -> ResponseTokens] : n \in 0..MaxTokens}

(* A caller about to apply one of the functions to an argument. *)
InitExtractor ==
  /\ examples = <<>>
  /\ validations = <<>>
  /\ sessions = <<>>
  /\ metrics = <<>>
  /\ report = <<>>
  /\ learn = LearnIdle
  /\ \/ \E data \in Candidates :
          ret = [NoRet EXCEPT !.op = "call validateAndScoreTender", !.arg = <<data>>]
     \/ \E dateStr \in DateInputs :
          ret = [NoRet EXCEPT !.op = "call normalizeDate", !.arg = <<dateStr>>]
     \/ \E responseText \in ResponseTexts :
          ret = [NoRet EXCEPT !.op = "call parseGeminiResponse", !.arg = <<responseText>>]

ValidateAndScoreTender ==
  /\ ret.op = "call validateAndScoreTender"
  /\ ret' = [ret EXCEPT !.op = "validateAndScoreTender",
                        !.result = <<validateAndScoreTender(ret.arg[1])>>]
  /\ UNCHANGED <<examples, validations, sessions, metrics, report, learn>>

NormalizeDate ==
  /\ ret.op = "call normalizeDate"
  /\ ret' = [ret EXCEPT !.op = "normalizeDate", !.result = normalizeDate(ret.arg[1])]
  /\ UNCHANGED <<examples, validations, sessions, metrics, report, learn>>

ParseGeminiResponse ==
  /\ ret.op = "call parseGeminiResponse"
  /\ ret' = [ret EXCEPT !.op = "parseGeminiResponse",
                        !.result = parseGeminiResponse(ret.arg[1])]
  /\ UNCHANGED <<examples, validations, sessions, metrics, report, learn>>

NextExtractor == ValidateAndScoreTender \/ NormalizeDate \/ ParseGeminiResponse

SpecExtractor == InitExtractor /\ [][NextExtractor]_vars

(* ---------------- specifications ---------------- *)

(* The example store alone: examples are saved (under iteration 1, as a   *)
(* learn run does) and validated.                                          *)
NextStore ==
  \/ \E x \in ExtractOutcomes :
       /\ x.kind = "ok"
       /\ Len(examples) + Len(x.results) <= MaxExamples
       /\ SaveTrainingExample(x.results, 1)
  \/ \E id \in 1..(Len(examples) + 1), t \in GroundTruths : ValidateExample(id, t)

SpecStore == Init /\ [][NextStore]_vars

(* The store is filled and validated, sessions are created, and training  *)
(* rounds run on what is stored; once a round has written its report only  *)
(* rounds and new sessions follow.                                         *)
Next ==
  \/ \E e \in ExtractionResults, it \in Iterations :
       /\ report = <<>>
       /\ Len(examples) < MaxExamples
       /\ SaveTrainingExample(<<e>>, it)
  \/ \E id \in 1..(Len(examples) + 1), t \in TrainTruths :
       report = <<>> /\ ValidateExample(id, t)
  \/ Len(sessions) < MaxSessions /\ CreateSession
  \/ \E outcomes \in [1..NSelected -> ReExtractOutcomes] :
       TotalIterations < MaxRounds /\ Train(outcomes)

Spec == Init /\ [][Next]_vars

(* The session and metrics histories: sessions are created and records   *)
(* added, under known and unknown session ids, and snapshots are recorded  *)
(* until the cap has evicted MaxEvictions of them.                         *)
NextHistory ==
  \/ Len(sessions) < MaxHistory /\ CreateSession
  \/ \E sessionId \in 1..(Len(sessions) + 1), iteration \in IterationRecords :
       TotalIterations < MaxRounds /\ AddIteration(sessionId, iteration)
  \/ Now(metrics) <= MetricsCap + MaxEvictions /\ SaveMetrics(NextSnapshot)

SpecHistory == Init /\ [][NextHistory]_vars

(* The store operations and a training round over a file system whose    *)
(* writes may reject and whose files may be unreadable.                    *)
NextFaults ==
  \/ \E x \in ExtractOutcomes, failAt \in 0..MaxExamples :
       /\ x.kind = "ok"
       /\ failAt <= Len(x.results)
       /\ Len(examples) + Len(x.results) <= MaxExamples
       /\ SaveTrainingExampleIO(x.results, 1, failAt)
  \/ \E id \in 1..(Len(examples) + 1), t \in TrainTruths,
        unreadable \in BOOLEAN, failAt \in 0..2 :
       ValidateExampleIO(id, t, unreadable, failAt)
  \/ \E unreadable \in BOOLEAN, writeFails \in BOOLEAN :
       Len(sessions) < MaxSessions /\ CreateSessionIO(unreadable, writeFails)
  \/ \E sessionId \in 1..(Len(sessions) + 1), iteration \in IterationRecords,
        unreadable \in BOOLEAN, writeFails \in BOOLEAN :
       TotalIterations < MaxSessions
         /\ AddIterationIO(sessionId, iteration, unreadable, writeFails)
  \/ \E unreadable \in BOOLEAN, writeFails \in BOOLEAN :
       Now(metrics) <= MaxHistory /\ SaveMetricsIO(NextSnapshot, unreadable, writeFails)
  \/ TrainUnreadable

SpecFaults == Init /\ [][NextFaults]_vars

(* A store grown past the re-extraction cap: captures are saved one by    *)
(* one (the first may extract completely, the others lack the code), the   *)
(* reviewer validates the unvalidated examples in the order they are       *)
(* listed, and rounds run with every re-extraction ending alike.           *)
NextBulk ==
  \/ \E e \in ExtractionResults :
       /\ report = <<>>
       /\ Len(examples) < ReprocessCap + MaxBeyondCap
       /\ e = ENoCode \/ examples = <<>>
       /\ SaveTrainingExample(<<e>>, 1)
  \/ /\ report = <<>>
     /\ getUnvalidatedExamples(examples) # <<>>
     /\ ValidateExample(getUnvalidatedExamples(examples)[1].id, T0)
  \/ Len(sessions) < MaxSessions /\ CreateSession
  \/ \E o \in ReExtractOutcomes :
       TotalIterations < MaxRounds /\ Train([k \in 1..NSelected |-> o])

SpecBulk == Init /\ [][NextBulk]_vars

(* The two entry points of the program: learn runs and training rounds. *)
NextLearn ==
  \/ \E n \in 0..MaxCaptures : \E captures \in [1..n -> ExtractOutcomes] :
       /\ Len(sessions) < MaxSessions
       /\ Len(extractAndSave(examples, captures)) <= MaxExamples
       /\ LearnStart(captures)
  \/ \E answer \in Answers, edited \in TrainTruths : LearnAnswer(answer, edited)
  \/ \E outcomes \in [1..NSelected -> ReExtractOutcomes] :
       /\ learn.pc = "idle"
       /\ TotalIterations < MaxRounds
       /\ Train(outcomes)

SpecLearn == Init /\ [][NextLearn]_vars

(* ---------------- the runs, await by await ---------------- *)

(* In SpecPipeline `learn` is the position of the one running process, a   *)
(* learn run or a training round, between its awaits: the loop counters,   *)
(* the extractor's prompt and the prompt each extractFromPDF call was made  *)
(* with, the number of calls in flight and made, and the milliseconds       *)
(* passed since the last call returned and since the capture loop's timer   *)
(* was set (both counted up to the delay).                                  *)
RunIdle ==
  [pc |-> "idle", kind |-> "none", page |-> 0, pages |-> 0, captures |-> 0,
   i |-> 0, n |-> 0, inFlight |-> 0, calls |-> 0, sinceReturn |-> 0, timer |-> 0,
   extractionPrompt |-> DefaultPrompt, callPrompts |-> <<>>, callDocuments |-> <<>>,
   currentAccuracy |-> 0, reprocessedCount |-> 0, allExtractions |-> <<>>]

InitPipeline ==
  /\ examples = <<>>
  /\ validations = <<>>
  /\ sessions = <<>>
  /\ metrics = <<>>
  /\ report = <<>>
  /\ learn = RunIdle
  /\ ret = NoRet

(* The clock moves in thirds of the delay. *)
Later(ms) == Min2(ms + DelayBetweenRequests \div 3, DelayBetweenRequests)

(* Variant: the new prompt is not installed. *)
updatePrompt_keepsOld(extractionPrompt, newPrompt) == extractionPrompt

(* GeminiExtractor.updatePrompt: this.extractionPrompt = newPrompt. *)
updatePrompt(extractionPrompt, newPrompt) == newPrompt

(* Time passes while the process is suspended at an await. *)
Tick ==
  /\ learn.pc # "idle"
  /\ \/ learn.sinceReturn < DelayBetweenRequests
     \/ learn.pc = "waiting" /\ learn.timer < DelayBetweenRequests
  /\ learn' = [learn EXCEPT !.sinceReturn = Later(@),
                            !.timer = IF learn.pc = "waiting" THEN Later(@) ELSE @]
  /\ UNCHANGED <<examples, validations, sessions, metrics, report, ret>>

(* train() up to the accuracy read, in a fresh ContinuousTrainer. *)
RoundBegin ==
  /\ learn.pc = "idle"
  /\ learn' = [RunIdle EXCEPT !.pc = "analyzing", !.kind = "train",
                              !.currentAccuracy = calculateAccuracy(examples)]
  /\ ret' = [NoRet EXCEPT !.op = "step", !.stage = "analyzing"]
  /\ UNCHANGED <<examples, validations, sessions, metrics, report>>

(* The validated examples are read and the failures selected; either      *)
(* early return ends the round.                                            *)
RoundAnalyze ==
  LET validated == getValidatedExamples(examples, 0)
      failures == analyzeFailures(validated)
      stage == trainStage(validated, failures)
  IN  /\ learn.pc = "analyzing"
      /\ UNCHANGED <<examples, validations, sessions, metrics, report>>
      /\ IF stage = "recorded"
           THEN /\ learn' = [learn EXCEPT !.pc = "refining"]
                /\ ret' = [NoRet EXCEPT !.op = "step", !.stage = "refining"]
           ELSE /\ learn' = RunIdle
                /\ ret' = [NoRet EXCEPT !.op = "train", !.stage = stage,
                                        !.iteration = IF stage = "no-validated" THEN 0
                                                      ELSE nextIteration(validated),
                                        !.prompt = DefaultPrompt]

(* generateImprovedPrompt and updatePrompt; the loop is entered. *)
RoundRefine ==
  LET failures == analyzeFailures(getValidatedExamples(examples, 0))
  IN  /\ learn.pc = "refining"
      /\ learn' = [learn EXCEPT
                     !.pc = "reextracting",
                     !.extractionPrompt = updatePrompt(@, generateImprovedPrompt(failures)),
                     !.i = 1,
                     !.n = Len(failuresSlice(failures))]
      /\ ret' = [NoRet EXCEPT !.op = "step", !.stage = "reextracting"]
      /\ UNCHANGED <<examples, validations, sessions, metrics, report>>

(* The document of the loop's current pass. *)
currentDocument ==
  IF learn.kind = "train"
    THEN failuresSlice(analyzeFailures(getValidatedExamples(examples, 0)))[learn.i].pdf_path
    ELSE CapturePath(examples)

(* A pass of either extraction loop calls extractFromPDF and suspends. *)
CallStart ==
  /\ learn.pc \in {"reextracting", "extracting"}
  /\ learn.i <= learn.n
  /\ learn' = [learn EXCEPT !.pc = "calling",
                            !.inFlight = @ + 1,
                            !.calls = @ + 1,
                            !.callPrompts = Append(@, learn.extractionPrompt),
                            !.callDocuments = Append(@, currentDocument)]
  /\ ret' = [NoRet EXCEPT !.op = "extractFromPDF", !.id = currentDocument]
  /\ UNCHANGED <<examples, validations, sessions, metrics, report>>

(* The call settles and the pass ends: a learn run saves what was          *)
(* extracted, a round counts it; the loop goes on to its next pass.        *)
CallReturn(o) ==
  LET counted == o.kind = "ok" /\ Len(o.results) > 0
  IN  /\ learn.pc = "calling"
      /\ ret' = [NoRet EXCEPT !.op = "extractFromPDF returned", !.err = o.kind = "throw"]
      /\ UNCHANGED <<validations, sessions, metrics, report>>
      /\ IF learn.kind = "train"
           THEN /\ learn' = [learn EXCEPT
                               !.pc = "reextracting", !.inFlight = @ - 1,
                               !.sinceReturn = 0, !.i = @ + 1,
                               !.reprocessedCount = @ + (IF counted THEN 1 ELSE 0)]
                /\ UNCHANGED examples
           ELSE /\ learn' = [learn EXCEPT
                               !.pc = "extracting", !.inFlight = @ - 1,
                               !.sinceReturn = 0, !.i = @ + 1,
                               !.allExtractions =
                                  @ \o [j \in DOMAIN o.results |-> o.results[j].overall]]
                /\ examples' = IF o.kind = "ok"
                                 THEN saveTrainingExample(examples, CapturePath(examples),
                                                          o.results, 1)
                                 ELSE examples

(* The loop is over: the record is built (accuracy_after is read). *)
RoundLoopEnd ==
  /\ learn.pc = "reextracting"
  /\ learn.i > learn.n
  /\ learn' = [learn EXCEPT !.pc = "recording"]
  /\ ret' = [NoRet EXCEPT !.op = "step", !.stage = "recording"]
  /\ UNCHANGED <<examples, validations, sessions, metrics, report>>

(* The record is added to the latest session and the report written. *)
RoundRecord ==
  LET validated == getValidatedExamples(examples, 0)
      failures == analyzeFailures(validated)
      iterationRecord ==
        [iteration_number |-> nextIteration(validated),
         examples_processed |-> Len(validated),
         accuracy_before |-> learn.currentAccuracy,
         accuracy_after |-> calculateAccuracy(examples),
         improvements |-> Len(failures)]
      added == IF Len(sessions) > 0
                 THEN addIteration(sessions, sessions[Len(sessions)].id, iterationRecord)
                 ELSE [err |-> FALSE, sessions |-> sessions]
  IN  /\ learn.pc = "recording"
      /\ sessions' = added.sessions
      /\ report' = generateReport(examples, added.sessions, metrics)
      /\ learn' = RunIdle
      /\ ret' = [NoRet EXCEPT !.op = "train", !.stage = "recorded",
                              !.err = added.err,
                              !.iteration = nextIteration(validated),
                              !.calls = learn.callDocuments,
                              !.prompt = learn.extractionPrompt,
                              !.reprocessed = learn.reprocessedCount]
      /\ UNCHANGED <<examples, validations, metrics>>

(* learnAndImprove up to the capture loop. *)
PipelineBegin(totalPages) ==
  /\ learn.pc = "idle"
  /\ learn' = [RunIdle EXCEPT !.pc = "capturing", !.kind = "learn",
                              !.page = 1, !.pages = totalPages]
  /\ ret' = [NoRet EXCEPT !.op = "step", !.stage = "capturing"]
  /\ UNCHANGED <<examples, validations, sessions, metrics, report>>

(* A pass of captureMultiplePages: a page that is captured and is not the *)
(* last sets the timer; a capture that throws goes on to the next page.    *)
Capture(captured) ==
  /\ learn.pc = "capturing"
  /\ learn.page <= learn.pages
  /\ learn' = IF captured /\ learn.page < learn.pages
                THEN [learn EXCEPT !.pc = "waiting", !.timer = 0, !.captures = @ + 1]
                ELSE [learn EXCEPT !.page = @ + 1,
                                   !.captures = @ + (IF captured THEN 1 ELSE 0)]
  /\ ret' = [NoRet EXCEPT !.op = "capturePDF", !.err = ~captured]
  /\ UNCHANGED <<examples, validations, sessions, metrics, report>>

(* setTimeout(resolve, delay) fires. *)
Waited ==
  /\ learn.pc = "waiting"
  /\ learn.timer >= DelayBetweenRequests
  /\ learn' = [learn EXCEPT !.pc = "capturing", !.page = @ + 1]
  /\ ret' = [NoRet EXCEPT !.op = "step", !.stage = "capturing"]
  /\ UNCHANGED <<examples, validations, sessions, metrics, report>>

(* Phase 4 begins: createSession, then the extraction loop is entered. *)
PipelineSession ==
  /\ learn.pc = "capturing"
  /\ learn.page > learn.pages
  /\ sessions' = createSession(sessions)
  /\ learn' = [learn EXCEPT !.pc = "extracting", !.i = 1, !.n = learn.captures]
  /\ ret' = [NoRet EXCEPT !.op = "createSession", !.id = Len(sessions) + 1]
  /\ UNCHANGED <<examples, validations, metrics, report>>

(* Phases 5 and 6 with a reviewer who skips every prompt. *)
PipelineFinish ==
  LET ms == saveMetrics(metrics, metricsSnapshot(learn.allExtractions,
                                                 calculateAccuracy(examples), Now(metrics)))
  IN  /\ learn.pc = "extracting"
      /\ learn.i > learn.n
      /\ metrics' = ms
      /\ report' = generateReport(examples, sessions, ms)
      /\ learn' = RunIdle
      /\ ret' = [NoRet EXCEPT !.op = "learn"]
      /\ UNCHANGED <<examples, validations, sessions>>

(* A learn run, validations of what it stored, and training rounds, each   *)
(* run taken await by await.                                               *)
NextPipeline ==
  \/ \E totalPages \in 1..MaxCaptures :
       Len(sessions) < MaxSessions /\ PipelineBegin(totalPages)
  \/ \E captured \in BOOLEAN : Capture(captured)
  \/ Waited
  \/ PipelineSession
  \/ PipelineFinish
  \/ \E id \in DOMAIN examples :
       learn.pc = "idle" /\ ~examples[id].is_validated /\ ValidateExample(id, T0)
  \/ TotalIterations < MaxRounds /\ RoundBegin
  \/ RoundAnalyze
  \/ RoundRefine
  \/ CallStart
  \/ \E o \in ExtractOutcomes :
       /\ learn.kind = "train" => o \in ReExtractOutcomes
       /\ learn.kind = "learn" => Len(examples) + Len(o.results) <= MaxExamples
       /\ CallReturn(o)
  \/ RoundLoopEnd
  \/ RoundRecord
  \/ Tick

SpecPipeline == InitPipeline /\ [][NextPipeline]_vars

(* ---------------- ValidationAnalyzer ---------------- *)

(* Variant: only the text fields are compared. *)
mismatchedFields_textOnly(example) ==
  {f \in {"bidang", "keterangan"} :
     example.gemini_extraction.tender[f] # example.manual_validation[1][f]}

(* The fields the inner loop of analyzeValidations finds unequal. *)
mismatchedFields(example) ==
  {FieldOrder[i] : i \in {j \in DOMAIN FieldOrder :
     example.gemini_extraction.tender[FieldOrder[j]]
       # example.manual_validation[1][FieldOrder[j]]}}

(* Variant: an example with a mismatch counts against every field. *)
fieldErrors_countsExamples(validated) ==
  [f \in {FieldOrder[i] : i \in DOMAIN FieldOrder} |->
     Len(SelectSeq(validated, LAMBDA e : e.manual_validation # <<>>
                                 /\ mismatchedFields(e) # {}))]

(* fieldErrors after the loop over the validated examples. *)
fieldErrors(validated) ==
  [f \in {FieldOrder[i] : i \in DOMAIN FieldOrder} |->
     Len(SelectSeq(validated, LAMBDA e : e.manual_validation # <<>>
                                 /\ f \in mismatchedFields(e)))]

(* What analyzeValidations prints for a store with a validated example:   *)
(* the counts, the rates (toFixed(2), in hundredths) and the accuracy.     *)
analyzeValidations(store) ==
  LET validated == getValidatedExamples(store, 0)
      errors == fieldErrors(validated)
      perfectExtractions ==
        Len(SelectSeq(validated, LAMBDA e : e.manual_validation # <<>>
                                    /\ mismatchedFields(e) = {}))
  IN  [total_validated |-> Len(validated),
       perfectExtractions |-> perfectExtractions,
       perfectRate |-> ToFixed2Pct(perfectExtractions, Len(validated)),
       fieldErrors |-> errors,
       errorRate |-> [f \in DOMAIN errors |-> ToFixed2Pct(errors[f], Len(validated))],
       accuracy |-> calculateAccuracy(store)]

(* One run of the analyzer: it returns early on a store without validated *)
(* examples and otherwise ends with generateReport.                        *)
AnalyzeValidations ==
  /\ UNCHANGED <<examples, validations, sessions, metrics, learn>>
  /\ IF Len(getValidatedExamples(examples, 0)) = 0
       THEN /\ ret' = [NoRet EXCEPT !.op = "analyzeValidations", !.stage = "no-validated"]
            /\ UNCHANGED report
       ELSE /\ ret' = [NoRet EXCEPT !.op = "analyzeValidations", !.stage = "analyzed",
                                    !.result = <<analyzeValidations(examples)>>]
            /\ report' = generateReport(examples, sessions, metrics)

(* generateReport called on the store as it is. *)
GenerateReport ==
  /\ report' = generateReport(examples, sessions, metrics)
  /\ ret' = [NoRet EXCEPT !.op = "generateReport"]
  /\ UNCHANGED <<examples, validations, sessions, metrics, learn>>

(* Ground truths typed where the analyzer is explored. *)
AnalysisTruths ==
  {T0, [T0 EXCEPT !.tarikh = "2024-07-04"], [T0 EXCEPT !.bidang = "BIDANG B"]}

(* Examples are saved one by one and validated in the order they are       *)
(* listed; the analyzer and the report run on what is stored.              *)
NextAnalysis ==
  \/ \E e \in ExtractionResults :
       /\ report = <<>>
       /\ Len(examples) < MaxAnalyzed
       /\ SaveTrainingExample(<<e>>, 1)
  \/ \E t \in AnalysisTruths :
       /\ report = <<>>
       /\ getUnvalidatedExamples(examples) # <<>>
       /\ ValidateExample(getUnvalidatedExamples(examples)[1].id, t)
  \/ Len(sessions) < MaxSessions /\ report = <<>> /\ CreateSession
  \/ AnalyzeValidations
  \/ GenerateReport

SpecAnalysis == Init /\ [][NextAnalysis]_vars

(* ---------------- store mutations, await by await ---------------- *)
(* createSession, addIteration and saveMetrics each await the read of the  *)
(* list file, change the list they were given, and await the write of the  *)
(* whole list.  Two callers (a learn run and a train run started on the    *)
(* same data directory) take these steps in any order.  learn holds, per   *)
(* caller, the operation in progress and the list it read; effects is the  *)
(* set of mutations whose write has completed.  A write replaces the file  *)
(* in one step.                                                            *)
Callers == {1, 2}

CallerIdle == [pc |-> "idle", op |-> "none", tag |-> 0, sessionId |-> 0,
               sessions |-> <<>>, allMetrics |-> <<>>]

MutationsIdle == [callers |-> [c \in Callers |-> CallerIdle],
                  started |-> 0, effects |-> {}]

InitMutations ==
  /\ examples = <<>>
  /\ validations = <<>>
  /\ sessions = <<>>
  /\ metrics = <<>>
  /\ report = <<>>
  /\ learn = MutationsIdle
  /\ ret = NoRet

(* uuidv4(): an id no other session has. *)
createSessionWithId(ss, id) ==
  Append(ss, [createSession(ss)[Len(ss) + 1] EXCEPT !.id = id])

iterationRecordOf(tag) ==
  [iteration_number |-> tag, examples_processed |-> 1,
   accuracy_before |-> 0, accuracy_after |-> 0, improvements |-> 1]

(* A caller enters createSession (learn.ts:72). *)
CallCreateSession(c) ==
  /\ learn.callers[c].pc = "idle"
  /\ learn.started < MaxMutations
  /\ learn' = [learn EXCEPT !.started = @ + 1,
                            !.callers[c] = [CallerIdle EXCEPT !.pc = "reading",
                                                              !.op = "createSession",
                                                              !.tag = learn.started + 1]]
  /\ ret' = [NoRet EXCEPT !.op = "call", !.stage = "createSession", !.id = c]
  /\ UNCHANGED <<examples, validations, sessions, metrics, report>>

(* train() has read the sessions and enters addIteration with the id of    *)
(* the last one (training-manager.ts:480-483).                             *)
CallAddIteration(c) ==
  /\ learn.callers[c].pc = "idle"
  /\ learn.started < MaxMutations
  /\ Len(sessions) > 0
  /\ learn' = [learn EXCEPT !.started = @ + 1,
                            !.callers[c] = [CallerIdle EXCEPT !.pc = "reading",
                                                              !.op = "addIteration",
                                                              !.tag = learn.started + 1,
                                                              !.sessionId = sessions[Len(sessions)].id]]
  /\ ret' = [NoRet EXCEPT !.op = "call", !.stage = "addIteration", !.id = c]
  /\ UNCHANGED <<examples, validations, sessions, metrics, report>>

(* A caller enters saveMetrics (learn.ts:116). *)
CallSaveMetrics(c) ==
  /\ learn.callers[c].pc = "idle"
  /\ learn.started < MaxMutations
  /\ learn' = [learn EXCEPT !.started = @ + 1,
                            !.callers[c] = [CallerIdle EXCEPT !.pc = "reading",
                                                              !.op = "saveMetrics",
                                                              !.tag = learn.started + 1]]
  /\ ret' = [NoRet EXCEPT !.op = "call", !.stage = "saveMetrics", !.id = c]
  /\ UNCHANGED <<examples, validations, sessions, metrics, report>>

(* await this.getSessions() / await this.getMetrics() returns the list as  *)
(* it is now; addIteration throws when the session is not in it.           *)
ListRead(c) ==
  LET caller == learn.callers[c]
      found == \E k \in DOMAIN sessions : sessions[k].id = caller.sessionId
  IN  /\ caller.pc = "reading"
      /\ IF caller.op = "addIteration" /\ ~found
           THEN /\ learn' = [learn EXCEPT !.callers[c] = CallerIdle]
                /\ ret' = [NoRet EXCEPT !.op = "read", !.stage = caller.op,
                                        !.id = c, !.err = TRUE]
           ELSE /\ learn' = [learn EXCEPT !.callers[c].pc = "writing",
                                          !.callers[c].sessions = sessions,
                                          !.callers[c].allMetrics = metrics]
                /\ ret' = [NoRet EXCEPT !.op = "read", !.stage = caller.op, !.id = c]
      /\ UNCHANGED <<examples, validations, sessions, metrics, report>>

(* await fs.writeFile(...) of the list read, changed by the operation. *)
ListWritten(c) ==
  LET caller == learn.callers[c]
      effect == [op |-> caller.op, tag |-> caller.tag, sessionId |-> caller.sessionId]
  IN  /\ caller.pc = "writing"
      /\ sessions' =
           IF caller.op = "createSession"
             THEN createSessionWithId(caller.sessions, caller.tag)
           ELSE IF caller.op = "addIteration"
             THEN addIteration(caller.sessions, caller.sessionId,
                               iterationRecordOf(caller.tag)).sessions
           ELSE sessions
      /\ metrics' =
           IF caller.op = "saveMetrics"
             THEN saveMetrics(caller.allMetrics,
                              metricsSnapshot(<<964>>, 0, caller.tag))
           ELSE metrics
      /\ learn' = [learn EXCEPT !.callers[c] = CallerIdle,
                                !.effects = @ \cup {effect}]
      /\ ret' = [NoRet EXCEPT !.op = "written", !.stage = caller.op, !.id = c]
      /\ UNCHANGED <<examples, validations, report>>

NextMutations ==
  \/ \E c \in Callers : CallCreateSession(c)
  \/ \E c \in Callers : CallAddIteration(c)
  \/ \E c \in Callers : CallSaveMetrics(c)
  \/ \E c \in Callers : ListRead(c)
  \/ \E c \in Callers : ListWritten(c)

SpecMutations == InitMutations /\ [][NextMutations]_vars

(* ---------------- properties ---------------- *)

IsValidated(store) == {k \in DOMAIN store : store[k].is_validated}

(* The spec's critical fields: sequence number, fixed-length code, status. *)
CriticalFieldsEqual(example) ==
  LET extracted == example.gemini_extraction.tender
      truth == example.manual_validation[1]
  IN  /\ extracted.bil = truth.bil
      /\ extracted.kod_bidang = truth.kod_bidang
      /\ extracted.status = truth.status

(* C1: after any saveTrainingExample and validateExample calls, a stored  *)
(* example is flagged validated exactly when a ground truth is attached.   *)
C1_ValidatedIffGroundTruth ==
  \A k \in DOMAIN examples :
    examples[k].is_validated <=> examples[k].manual_validation # <<>>

C1_Witness ==
  /\ ret.op = "validateExample" /\ ~ret.err
  /\ \E k \in DOMAIN examples : examples[k].is_validated
  /\ \E k \in DOMAIN examples : ~examples[k].is_validated

(* C2: the accuracy is 100 * (validated examples whose bil, kod_bidang     *)
(* and status all equal the ground truth) / (validated examples); no other *)
(* field makes an example incorrect.                                       *)
C2_AccuracyCountsCriticalFieldsOnly ==
  LET V == IsValidated(examples)
      correct == {k \in V : CriticalFieldsEqual(examples[k])}
  IN  V # {} =>
        calculateAccuracy(examples) = ToFixed2Pct(Cardinality(correct), Cardinality(V))

C4_AnswerSettlesExample ==
  ret.op = "answer" =>
    LET e == examples[ret.id]
    IN  /\ ret.answer = "y" =>
             e.is_validated /\ e.manual_validation = <<e.gemini_extraction.tender>>
        /\ ret.answer = "edit" =>
             e.is_validated /\ e.manual_validation = <<validations[ret.id]>>
        /\ ret.answer = "n" => ~e.is_validated

(* C5: a training round that finds no failing example appends no iteration *)
(* record, calls extractFromPDF for no document and leaves the extractor's *)
(* prompt as it was.                                                       *)
C5_NoFailuresNoRound ==
  [][ ( /\ ret'.op = "train"
        /\ analyzeFailures(getValidatedExamples(examples, 0)) = <<>> )
      => /\ sessions' = sessions
         /\ ret'.calls = <<>>
         /\ ret'.prompt = DefaultPrompt ]_vars

C5_Witness ==
  /\ ret.op = "train" /\ ret.stage = "no-failures"
  /\ Len(sessions) > 0
  /\ IsValidated(examples) # {}

IterationNumbers(session) ==
  [k \in DOMAIN session.iterations |-> session.iterations[k].iteration_number]

(* C6: in every session the iteration numbers of the records, in append    *)
(* order, start at 1 and strictly increase.                                *)
C6_IterationNumbersIncreaseFromOne ==
  \A s \in DOMAIN sessions :
    LET n == IterationNumbers(sessions[s])
    IN  /\ n # <<>> => n[1] = 1
        /\ \A k \in 1..(Len(n) - 1) : n[k] < n[k + 1]

ValidatedIterations(store) ==
  {store[k].learning_iteration : k \in IsValidated(store)}

RoundNumbered(n) ==
  /\ sessions' # sessions =>
       LET its == sessions'[Len(sessions')].iterations
       IN  its[Len(its)].iteration_number = n

(* C7 as stated: a round's iteration number is 1 + the largest             *)
(* learning_iteration of a validated example, and 1 when none is validated. *)
C7_IterationDefaultsToOne ==
  [][ ret'.op = "train" =>
        LET V == ValidatedIterations(examples)
        IN  IF V = {} THEN ret'.iteration = 1
            ELSE /\ ret'.iteration - 1 \in V
                 /\ \A v \in V : v <= ret'.iteration - 1 ]_vars

(* C7 amended: with at least one validated example the round's iteration   *)
(* number is 1 + the largest learning_iteration of a validated example,    *)
(* and a record the round appends carries that number; with no validated   *)
(* example the round returns before a number is assigned (the trainer's    *)
(* iteration stays 0) and nothing is appended.                             *)
C7_IterationIsMaxPlusOne ==
  [][ ret'.op = "train" =>
        LET V == ValidatedIterations(examples)
        IN  IF V = {} THEN ret'.iteration = 0 /\ sessions' = sessions
            ELSE /\ ret'.iteration - 1 \in V
                 /\ \A v \in V : v <= ret'.iteration - 1
                 /\ RoundNumbered(ret'.iteration) ]_vars

C7_Witness ==
  /\ ret.op = "train" /\ ret.stage = "recorded"
  /\ ret.iteration = 3
  /\ Cardinality(ValidatedIterations(examples)) = 2
  /\ \E s \in DOMAIN sessions : sessions[s].iterations # <<>>

(* C8: a training round leaves as many more examples in the store as it    *)
(* had successful re-extractions.                                          *)
C8_ReExtractionCreatesExamples ==
  [][ ret'.op = "train" => Len(examples') = Len(examples) + ret'.reprocessed ]_vars

(* C9: a training round leaves every example that was stored before it     *)
(* exactly as it was, whatever the re-extractions return.                  *)
C9_RoundKeepsExamples ==
  [][ ret'.op = "train" =>
        \A k \in DOMAIN examples :
          k \in DOMAIN examples' /\ examples'[k] = examples[k] ]_vars

C9_Witness ==
  /\ ret.op = "train" /\ ret.stage = "recorded"
  /\ ret.reprocessed >= 1
  /\ Len(ret.calls) > ret.reprocessed

(* C10: validateExample with an id no stored example has throws and leaves *)
(* the example files and the validation units as they were.                *)
C10_UnknownIdRejected ==
  [][ (ret'.op = "validateExample" /\ ret'.id \notin DOMAIN examples)
      => /\ ret'.err
         /\ examples' = examples
         /\ validations' = validations ]_vars

C10_Witness ==
  /\ ret.op = "validateExample" /\ ret.err
  /\ ret.id \notin DOMAIN examples
  /\ IsValidated(examples) # {}

(* C11: validateExample on an already validated example with a different   *)
(* ground truth leaves the latest ground truth in the example and in its   *)
(* validation unit and the example validated; no step moves a validated    *)
(* example back to unvalidated.                                            *)
C11_LastValidationWins ==
  [][ /\ \A id \in DOMAIN examples, t \in GroundTruths :
           ( /\ ValidateExample(id, t)
             /\ examples[id].is_validated
             /\ examples[id].manual_validation # <<t>> )
           => /\ examples'[id].manual_validation = <<t>>
              /\ validations'[id] = t
              /\ examples'[id].is_validated
      /\ \A k \in DOMAIN examples :
           examples[k].is_validated
             => k \in DOMAIN examples' /\ examples'[k].is_validated ]_vars

C11_Witness ==
  /\ ret.op = "validateExample" /\ ~ret.err /\ ret.replaced
  /\ examples[ret.id].is_validated
  /\ examples[ret.id].manual_validation = <<validations[ret.id]>>
  /\ validations[ret.id] # T0

(* C12: saveTrainingExample adds exactly one example per extraction result *)
(* it is given, each under an id no other example has, unvalidated,        *)
(* without ground truth and with the result's overall confidence as        *)
(* confidence_score, and leaves every example stored before as it was.     *)
C12_SaveAddsOnePerResult ==
  [][ \A x \in ExtractOutcomes :
        SaveTrainingExample(x.results, 1)
        => /\ Len(examples') = Len(examples) + Len(x.results)
           /\ \A k \in DOMAIN examples : examples'[k] = examples[k]
           /\ \A j \in DOMAIN x.results :
                LET e == examples'[Len(examples) + j]
                IN  /\ e.gemini_extraction = x.results[j]
                    /\ e.confidence_score = x.results[j].overall
                    /\ ~e.is_validated
                    /\ e.manual_validation = <<>>
                    /\ \A k \in DOMAIN examples' :
                         k # Len(examples) + j => examples'[k].id # e.id ]_vars

C12_Witness ==
  /\ ret.op = "saveTrainingExample"
  /\ Len(examples) >= 2
  /\ examples[Len(examples)].pdf_path = examples[Len(examples) - 1].pdf_path
  /\ examples[Len(examples)].id # examples[Len(examples) - 1].id
  /\ examples[Len(examples)].gemini_extraction
       # examples[Len(examples) - 1].gemini_extraction

IsPrefix(s, t) == Len(s) <= Len(t) /\ SubSeq(t, 1, Len(s)) = s

(* C13: every step of createSession and addIteration calls keeps each      *)
(* stored session at its position, with its earlier iterations a prefix of *)
(* its later ones, and addIteration on one session leaves every other      *)
(* session as it was.                                                      *)
C13_SessionsAppendOnly ==
  [][ /\ \A k \in DOMAIN sessions :
           /\ k \in DOMAIN sessions'
           /\ sessions'[k].id = sessions[k].id
           /\ IsPrefix(sessions[k].iterations, sessions'[k].iterations)
      /\ ret'.op = "addIteration" =>
           /\ Len(sessions') = Len(sessions)
           /\ \A k \in DOMAIN sessions :
                sessions[k].id # ret'.id => sessions'[k] = sessions[k] ]_vars

C13_Witness ==
  /\ ret.op = "addIteration" /\ ~ret.err
  /\ Len(sessions) = 2
  /\ \E k \in DOMAIN sessions :
       /\ sessions[k].id = ret.id
       /\ Len(sessions[k].iterations) = 2
       /\ sessions[k].iterations[1] # sessions[k].iterations[2]

(* C14: addIteration with a session id no stored session has throws and    *)
(* leaves the stored sessions as they were.                                *)
C14_UnknownSessionRejected ==
  [][ ( /\ ret'.op = "addIteration"
        /\ \A k \in DOMAIN sessions : sessions[k].id # ret'.id )
      => ret'.err /\ sessions' = sessions ]_vars

C14_Witness ==
  /\ ret.op = "addIteration" /\ ret.err
  /\ \A k \in DOMAIN sessions : sessions[k].id # ret.id
  /\ \E k \in DOMAIN sessions : sessions[k].iterations # <<>>

(* C15: the metrics history never holds more than 100 snapshots, in the    *)
(* order they were recorded, and a saveMetrics call leaves the last        *)
(* min(n, 100) of the n snapshots recorded so far: the new one is last and *)
(* only the oldest are evicted.                                            *)
C15_MetricsKeepLastHundred ==
  /\ Len(metrics) <= 100
  /\ \A k \in 1..(Len(metrics) - 1) : metrics[k].timestamp < metrics[k + 1].timestamp
  /\ [][ ret'.op = "saveMetrics" =>
           LET pushed == Append(metrics, NextSnapshot)
               n == Len(pushed)
               keep == IF n <= 100 THEN n ELSE 100
           IN  /\ Len(metrics') = keep
               /\ metrics'[keep] = NextSnapshot
               /\ metrics'[keep].timestamp = (IF metrics' = <<>> THEN 0 ELSE metrics'[1].timestamp) + keep - 1
               /\ \A k \in 1..keep : metrics'[k] = pushed[n - keep + k] ]_vars

C15_Witness ==
  /\ ret.op = "saveMetrics"
  /\ Len(metrics) = 100
  /\ metrics[1].timestamp = 3
  /\ metrics[100].timestamp = 102

(* C16: a store write operation whose underlying write fails throws to its *)
(* caller; none returns normally.                                          *)
C16_WriteFailureSurfaced ==
  (ret.op \in {"saveTrainingExample", "validateExample", "createSession",
               "addIteration", "saveMetrics"} /\ ret.fault = "write")
    => ret.err

(* C17: an operation that meets an unreadable stored file ends with an     *)
(* error; it does not return normally having read the examples, the        *)
(* sessions or the metrics as empty, nor rewrite the history from that.    *)
C17_UnreadableStoreAborts ==
  [][ ret'.fault = "read"
      => /\ ret'.err
         /\ sessions' = sessions
         /\ metrics' = metrics ]_vars

FailingExamples == analyzeFailures(getValidatedExamples(examples, 0))

FieldDiffers(example, field) ==
  example.gemini_extraction.tender[field] # example.manual_validation[1][field]

TenderFields == {"bil", "tarikh", "daftar", "bidang", "kod_bidang", "keterangan", "status"}

(* C18: for the failing examples of the store, identifyFailurePatterns     *)
(* returns the empty set exactly when no failing example has a field whose *)
(* extracted value differs from its ground truth.                          *)
C18_NoPatternIffNoMismatch ==
  identifyFailurePatterns(FailingExamples) = {}
    <=> \A k \in DOMAIN FailingExamples, f \in TenderFields :
          ~FieldDiffers(FailingExamples[k], f)

ExpectedTags(failures) ==
  {t \in {"code_format", "status_format", "date_format", "text_content"} :
     \E k \in DOMAIN failures :
       \/ t = "code_format" /\ FieldDiffers(failures[k], "kod_bidang")
       \/ t = "status_format" /\ FieldDiffers(failures[k], "status")
       \/ t = "date_format" /\ FieldDiffers(failures[k], "tarikh")
       \/ t = "text_content" /\ ( \/ FieldDiffers(failures[k], "bidang")
                                   \/ FieldDiffers(failures[k], "keterangan") )}

(* C19: a pattern tag is returned exactly when some failing example        *)
(* mismatches its field: code_format for kod_bidang, status_format for     *)
(* status, date_format for tarikh, text_content for bidang or keterangan.  *)
C19_TagIffFieldMismatch ==
  identifyFailurePatterns(FailingExamples) = ExpectedTags(FailingExamples)

CorrectiveClauses(prompt) ==
  {prompt[k] : k \in DOMAIN prompt} \ {"base", "output-format"}

(* C20: the prompt a recorded round installs holds one corrective clause   *)
(* per failure pattern tag and no clause twice, and a round that follows   *)
(* another with the same tag set installs the same prompt, whatever prompt *)
(* was there before and however many rounds ran.                           *)
C20_RefineIdempotent ==
  [][ (ret'.op = "train" /\ ret'.stage = "recorded")
      => /\ CorrectiveClauses(ret'.prompt) = identifyFailurePatterns(FailingExamples)
         /\ \A j, k \in DOMAIN ret'.prompt : ret'.prompt[j] = ret'.prompt[k] => j = k
         /\ ( /\ ret.op = "train" /\ ret.stage = "recorded"
              /\ CorrectiveClauses(ret.prompt) = CorrectiveClauses(ret'.prompt) )
            => ret'.prompt = ret.prompt ]_vars

C20_Witness ==
  /\ ret.op = "train" /\ ret.stage = "recorded"
  /\ TotalIterations = 2
  /\ Len(FailingExamples) = 2
  /\ CorrectiveClauses(ret.prompt) = {"code_format", "date_format"}

(* C21: a training round calls extractFromPDF at most min(number of        *)
(* failing examples, 10) times: once for each selected failing example, in *)
(* order, on that example's document and on no other.                      *)
C21_ExtractionCallsCapped ==
  [][ ret'.op = "train" =>
        LET n == IF Len(FailingExamples) < 10 THEN Len(FailingExamples) ELSE 10
        IN  /\ Len(ret'.calls) <= n
            /\ ret'.stage = "recorded" => Len(ret'.calls) = n
            /\ \A k \in DOMAIN ret'.calls :
                 ret'.calls[k] = FailingExamples[k].pdf_path ]_vars

C21_Witness ==
  /\ ret.op = "train" /\ ret.stage = "recorded"
  /\ Len(FailingExamples) = 11
  /\ Len(ret.calls) = 10
  /\ \E k \in DOMAIN examples :
       examples[k].is_validated /\ \A j \in DOMAIN ret.calls : ret.calls[j] # examples[k].pdf_path

(* A re-extraction that throws or returns no result. *)
ExtractionFails(o) == o.kind = "throw" \/ Len(o.results) = 0

C23_SecondRoundShortCircuits ==
  [][ ( /\ ret.op = "train" /\ ret.stage = "recorded"
        /\ ret.reprocessed = Len(FailingExamples)
        /\ sessions # <<>>
        /\ ret'.op = "train" )
      => /\ calculateAccuracy(examples) =
              sessions[Len(sessions)].iterations[
                Len(sessions[Len(sessions)].iterations)].accuracy_after
         /\ ret'.stage = "no-failures"
         /\ sessions' = sessions ]_vars

(* C24: every training round ends with the report written from the store,  *)
(* the sessions and the metrics as the round leaves them, whether or not it *)
(* found a failing example.                                                 *)
C24_EveryRoundWritesReport ==
  [][ ret'.op = "train" =>
        report' = generateReport(examples', sessions', metrics') ]_vars

IsDigitString(s) == \A i \in 1..Len(s) : CharAt(s, i) \in Digits

(* C26: for a candidate whose code is not a string of exactly six digits   *)
(* and whose other fields are all accepted, the code scores 0 and is absent *)
(* from the record, the only error is the code's, every other field has the *)
(* value and the confidence it has when the code is valid, and the overall  *)
(* confidence lies strictly between 0 and that of the all-valid record.     *)
C26_BadCodeOnlyCostsTheCode ==
  ret.op = "validateAndScoreTender" =>
    LET data == ret.arg[1]
        r == ret.result[1]
        allValid == validateAndScoreTender([data EXCEPT !.kod_bidang = JStr("010302")])
    IN  ( /\ data.kod_bidang.t \in {"string", "undefined"}
          /\ ~(Len(data.kod_bidang.s) = 6 /\ IsDigitString(data.kod_bidang.s))
          /\ allValid.errors = <<>> )
        => /\ r.per_field.kod_bidang = 0
           /\ r.tender.kod_bidang = JUndef
           /\ Len(r.errors) = 1 /\ r.errors[1].field = "kod_bidang"
           /\ \A f \in DOMAIN data \ {"kod_bidang"} :
                /\ r.tender[f] = allValid.tender[f] /\ r.tender[f] # JUndef
                /\ r.per_field[f] = allValid.per_field[f] /\ r.per_field[f] > 0
           /\ 0 < r.overall /\ r.overall < allValid.overall

C26_Witness ==
  /\ ret.op = "validateAndScoreTender"
  /\ ret.arg[1] = [ScenarioAWithDaftar EXCEPT !.kod_bidang = JStr("12345")]
  /\ ret.result[1].overall = 821

(* C27: the validator accepts a category text exactly when it has at least *)
(* 5 characters and a description exactly when it has at least 10.          *)
C27_MinimumLengths ==
  ret.op = "validateAndScoreTender" =>
    LET data == ret.arg[1]
        r == ret.result[1]
    IN  /\ data.bidang.t = "string" =>
             (r.per_field.bidang > 0 <=> Len(data.bidang.s) >= 5)
        /\ data.keterangan.t = "string" =>
             (r.per_field.keterangan > 0 <=> Len(data.keterangan.s) >= 10)

ErrorsFor(r, f) == {k \in DOMAIN r.errors : r.errors[k].field = f}

(* C28: in every result of the validator each of the seven fields is       *)
(* scored; a field is present in the record exactly when its confidence is  *)
(* above 0 and exactly when no error names it; a field is scored as it is   *)
(* in a candidate whose other fields are all valid; and there are as many   *)
(* errors as fields with confidence 0.                                      *)
C28_FieldOutcomesAgree ==
  ret.op = "validateAndScoreTender" =>
    LET data == ret.arg[1]
        r == ret.result[1]
    IN  /\ DOMAIN r.per_field = TenderFields /\ DOMAIN r.tender = TenderFields
        /\ \A f \in TenderFields :
             LET alone == validateAndScoreTender([ScenarioAWithDaftar EXCEPT ![f] = data[f]])
             IN  /\ r.tender[f] # JUndef <=> r.per_field[f] > 0
                 /\ r.per_field[f] > 0 <=> ErrorsFor(r, f) = {}
                 /\ Cardinality(ErrorsFor(r, f)) <= 1
                 /\ r.per_field[f] = alone.per_field[f]
                 /\ r.tender[f] = alone.tender[f]
        /\ Len(r.errors) = Cardinality({f \in TenderFields : r.per_field[f] = 0})

C28_Witness ==
  /\ ret.op = "validateAndScoreTender"
  /\ Len(ret.result[1].errors) = 3
  /\ ret.result[1].per_field.kod_bidang = 0
  /\ ret.result[1].per_field.status = 1000
  /\ ret.result[1].tender.bidang # JUndef

(* Four digits, "-", two digits, "-", two digits. *)
IsCanonicalDate(s) ==
  /\ Len(s) = 10
  /\ IsDigitString(SubSeq(s, 1, 4)) /\ CharAt(s, 5) = "-"
  /\ IsDigitString(SubSeq(s, 6, 7)) /\ CharAt(s, 8) = "-"
  /\ IsDigitString(SubSeq(s, 9, 10))

(* Two digits, sep, two digits, sep, four digits. *)
IsDayMonthYear(s, sep) ==
  /\ Len(s) = 10
  /\ IsDigitString(SubSeq(s, 1, 2)) /\ CharAt(s, 3) = sep
  /\ IsDigitString(SubSeq(s, 4, 5)) /\ CharAt(s, 6) = sep
  /\ IsDigitString(SubSeq(s, 7, 10))

(* The canonical date r has the day, month and year of the day-first s. *)
SameDayMonthYear(r, s) ==
  /\ IsCanonicalDate(r)
  /\ SubSeq(r, 9, 10) = SubSeq(s, 1, 2)
  /\ SubSeq(r, 6, 7) = SubSeq(s, 4, 5)
  /\ SubSeq(r, 1, 4) = SubSeq(s, 7, 10)

(* C29: normalizeDate returns a canonical YYYY-MM-DD string unchanged, maps *)
(* DD/MM/YYYY to the canonical date of the same day, month and year,        *)
(* returns null for every other string, and maps its results to themselves. *)
C29_OnlySlashAndCanonical ==
  (ret.op = "normalizeDate" /\ ret.arg[1].t = "string") =>
    LET s == ret.arg[1].s
    IN  /\ IsCanonicalDate(s) => ret.result = <<s>>
        /\ IsDayMonthYear(s, "/") =>
             ret.result # <<>> /\ SameDayMonthYear(ret.result[1], s)
        /\ ~IsCanonicalDate(s) /\ ~IsDayMonthYear(s, "/") => ret.result = <<>>
        /\ ret.result # <<>> => normalizeDate(JStr(ret.result[1])) = ret.result

(* C29, amended: as above with DD-MM-YYYY mapped like DD/MM/YYYY, and null  *)
(* for every string of another shape and for every value that is not a     *)
(* string.                                                                  *)
C29_NormalizeDateShapes ==
  ret.op = "normalizeDate" =>
    IF ret.arg[1].t # "string" THEN ret.result = <<>>
    ELSE LET s == ret.arg[1].s
         IN  /\ IsCanonicalDate(s) => ret.result = <<s>>
             /\ IsDayMonthYear(s, "/") \/ IsDayMonthYear(s, "-") =>
                  ret.result # <<>> /\ SameDayMonthYear(ret.result[1], s)
             /\ ( ~IsCanonicalDate(s) /\ ~IsDayMonthYear(s, "/")
                   /\ ~IsDayMonthYear(s, "-") ) => ret.result = <<>>
             /\ ret.result # <<>> => normalizeDate(JStr(ret.result[1])) = ret.result

C29_Witness ==
  /\ ret.op = "normalizeDate"
  /\ ret.arg[1] = JStr("03-07-2024")
  /\ ret.result = <<"2024-07-03">>

(* C30: parseGeminiResponse does not throw, and it returns the empty list  *)
(* for a response without a JSON array, for one whose JSON does not parse   *)
(* and for one whose array has an item that is not an object.               *)
C30_MalformedResponseGivesEmptyList ==
  ret.op = "parseGeminiResponse" =>
    LET match == jsonMatch(ret.arg[1])
        parsed == jsonParse(match[1])
    IN  /\ ~ret.err
        /\ ( \/ match = <<>>
             \/ parsed.threw
             \/ \E k \in DOMAIN parsed.items : parsed.items[k].t # "object" )
           => ret.result = <<>>

(* C31: at most one extractFromPDF call is in flight, and a call that is   *)
(* not the first of its run starts no sooner than the inter-request delay   *)
(* after the call before it returned.                                       *)
C31_CallsSerializedAndSpaced ==
  [][ learn'.inFlight > learn.inFlight =>
        /\ learn.inFlight = 0
        /\ learn.calls > 0 => learn.sinceReturn >= DelayBetweenRequests ]_vars

(* The steps of a round in the order train() takes them; a round that      *)
(* finds nothing to analyze or no failure returns from the analysis.       *)
RoundOrder ==
  { <<"idle", "analyzing">>, <<"analyzing", "idle">>, <<"analyzing", "refining">>,
    <<"refining", "reextracting">>, <<"reextracting", "calling">>,
    <<"calling", "reextracting">>, <<"reextracting", "recording">>,
    <<"recording", "idle">> }

(* C35: a training round goes from idle through the analysis, the          *)
(* refinement, the re-extraction loop and the recording back to idle, in    *)
(* that order and each once; every re-extraction call is made with the      *)
(* refined prompt installed; and the iteration record is appended when no   *)
(* call is in flight and every selected example has been attempted.         *)
C35_RoundFollowsStateOrder ==
  [][ (learn.kind = "train" \/ learn'.kind = "train") =>
        /\ learn'.pc # learn.pc => <<learn.pc, learn'.pc>> \in RoundOrder
        /\ learn'.inFlight > learn.inFlight =>
             /\ learn.extractionPrompt = generateImprovedPrompt(FailingExamples)
             /\ learn.extractionPrompt # DefaultPrompt
             /\ learn'.callPrompts[Len(learn'.callPrompts)] = learn.extractionPrompt
        /\ sessions' # sessions =>
             /\ learn.pc = "recording" /\ learn.inFlight = 0
             /\ Len(learn.callDocuments) = Min2(Len(FailingExamples), 10)
             /\ \A k \in DOMAIN learn.callDocuments :
                  learn.callDocuments[k] = FailingExamples[k].pdf_path ]_vars

C35_Witness ==
  /\ ret.op = "train" /\ ret.stage = "recorded"
  /\ Len(ret.calls) = 2
  /\ ret.prompt # DefaultPrompt
  /\ sessions # <<>> /\ sessions[Len(sessions)].iterations # <<>>
  /\ learn.pc = "idle"

(* The validated examples, and those whose extraction differs from the     *)
(* ground truth in the given field.                                         *)
DiffersIn(f) ==
  {k \in IsValidated(examples) :
     examples[k].gemini_extraction.tender[f] # examples[k].manual_validation[1][f]}

(* C32: when the validated examples differ from their ground truths in the *)
(* code only, k of n of them, the analyzer reports accuracy 100*(n-k)/n, k  *)
(* errors of n (rate 100*k/n) for the code and no error for any other field.*)
C32_CodeOnlyMismatches ==
  (ret.op = "analyzeValidations" /\ ret.result # <<>>) =>
    LET r == ret.result[1]
        n == Cardinality(IsValidated(examples))
        k == Cardinality(DiffersIn("kod_bidang"))
    IN  (\A f \in TenderFields \ {"kod_bidang"} : DiffersIn(f) = {})
        => /\ r.total_validated = n
           /\ r.accuracy = ToFixed2Pct(n - k, n)
           /\ report[1].extraction_accuracy_percentage = r.accuracy
           /\ r.fieldErrors.kod_bidang = k
           /\ r.errorRate.kod_bidang = ToFixed2Pct(k, n)
           /\ \A f \in TenderFields \ {"kod_bidang"} :
                r.fieldErrors[f] = 0 /\ r.errorRate[f] = 0

C32_Witness ==
  /\ ret.op = "analyzeValidations" /\ ret.result # <<>>
  /\ Cardinality(IsValidated(examples)) = 4
  /\ Cardinality(DiffersIn("kod_bidang")) = 1
  /\ \A f \in TenderFields \ {"kod_bidang"} : DiffersIn(f) = {}
  /\ ret.result[1].accuracy = 7500
  /\ ret.result[1].errorRate.kod_bidang = 2500

(* C33: every validated example the analyzer counts as a perfect           *)
(* extraction (all seven fields equal) is one calculateAccuracy counts as   *)
(* correct, so the perfect count and rate never exceed the correct count    *)
(* and the accuracy.                                                        *)
C33_PerfectImpliesCorrect ==
  (ret.op = "analyzeValidations" /\ ret.result # <<>>) =>
    LET r == ret.result[1]
        V == IsValidated(examples)
        perfect == {k \in V : \A f \in TenderFields : k \notin DiffersIn(f)}
        correct == {k \in V : calculateAccuracy(<<examples[k]>>) = 10000}
    IN  /\ perfect \subseteq correct
        /\ r.perfectExtractions = Cardinality(perfect)
        /\ r.accuracy = ToFixed2Pct(Cardinality(correct), Cardinality(V))
        /\ r.perfectExtractions <= Cardinality(correct)
        /\ r.perfectRate <= r.accuracy

C33_Witness ==
  /\ ret.op = "analyzeValidations" /\ ret.result # <<>>
  /\ ret.result[1].total_validated = 3
  /\ ret.result[1].perfectExtractions = 1
  /\ ret.result[1].accuracy = 6667

(* C34: generateReport leaves the examples, the validation units, the      *)
(* sessions and the metrics as they were and writes a report whose total is *)
(* the number of stored examples, each of them either in the validated or   *)
(* in the unvalidated list and not in both.                                 *)
C34_ReportIsPureRead ==
  [][ ret'.op = "generateReport" =>
        LET validatedIds == {getValidatedExamples(examples, 0)[k].id :
                               k \in DOMAIN getValidatedExamples(examples, 0)}
            unvalidatedIds == {getUnvalidatedExamples(examples)[k].id :
                                 k \in DOMAIN getUnvalidatedExamples(examples)}
        IN  /\ examples' = examples /\ validations' = validations
            /\ sessions' = sessions /\ metrics' = metrics
            /\ Len(report') = 1
            /\ report'[1].validated_examples = Cardinality(IsValidated(examples))
            /\ report'[1].unvalidated_examples
                 = Len(examples) - Cardinality(IsValidated(examples))
            /\ report'[1].total_examples = Len(examples)
            /\ validatedIds \cap unvalidatedIds = {}
            /\ validatedIds \cup unvalidatedIds
                 = {examples[k].id : k \in DOMAIN examples} ]_vars

C34_Witness ==
  /\ ret.op = "generateReport"
  /\ report # <<>>
  /\ report[1].validated_examples = 2
  /\ report[1].unvalidated_examples = 1
  /\ report[1].total_examples = 3
  /\ sessions # <<>>

(* C36: the examples a round selects as failing are the validated examples *)
(* calculateAccuracy does not count as correct, so a round over a store    *)
(* with a validated example ends with 'no improvements needed' exactly when *)
(* the accuracy is 100.                                                     *)
C36_FailuresAreTheIncorrect ==
  [][ ret'.op = "train" =>
        /\ {FailingExamples[k].id : k \in DOMAIN FailingExamples}
             = {examples[k].id : k \in {j \in IsValidated(examples) :
                                          calculateAccuracy(<<examples[j]>>) # 10000}}
        /\ IsValidated(examples) # {} =>
             (ret'.stage = "no-failures" <=> calculateAccuracy(examples) = 10000) ]_vars

(* C37: a training round that finds a failing example appends exactly one  *)
(* iteration record to the latest session, also when no session exists.    *)
C37_RoundAlwaysRecorded ==
  [][ (ret'.op = "train" /\ FailingExamples # <<>>) =>
        /\ TotalIterations' = TotalIterations + 1
        /\ sessions' # <<>>
        /\ sessions'[Len(sessions')].iterations # <<>>
        /\ sessions'[Len(sessions')].iterations[
             Len(sessions'[Len(sessions')].iterations)].iteration_number = ret'.iteration ]_vars

C39_NoMutationLost ==
  \A effect \in learn.effects :
    /\ effect.op = "createSession" =>
         \E k \in DOMAIN sessions : sessions[k].id = effect.tag
    /\ effect.op = "addIteration" =>
         \E k \in DOMAIN sessions :
           /\ sessions[k].id = effect.sessionId
           /\ \E j \in DOMAIN sessions[k].iterations :
                sessions[k].iterations[j].iteration_number = effect.tag
    /\ effect.op = "saveMetrics" =>
         \E k \in DOMAIN metrics : metrics[k].timestamp = effect.tag

====
